---- MODULE Spec2Model ----
(***************************************************************************)
(* Model of the message-understanding and data-aggregation pipeline of     *)
(* the Generative UI agents (gen-agent/graph.ts and react-agent/graph.ts). *)
(* Strings are TLA+ strings; a character is a string of length 1.          *)
(***************************************************************************)
EXTENDS Integers, Sequences, FiniteSets, TLC

(***************************************************************************)
(* String primitives of the JavaScript runtime used by the source.         *)
(***************************************************************************)
Chr(s, i) == SubSeq(s, i, i)

UpperChars == "ABCDEFGHIJKLMNOPQRSTUVWXYZ"

LowerChars == "abcdefghijklmnopqrstuvwxyz"

DigitChars == "0123456789"

UpperSet == {Chr(UpperChars, i) : i \in 1..Len(UpperChars)}

LowerSet == {Chr(LowerChars, i) : i \in 1..Len(LowerChars)}

DigitSet == {Chr(DigitChars, i) : i \in 1..Len(DigitChars)}

LetterSet == UpperSet \cup LowerSet

SpaceSet == {" "}

\* Every character that occurs in the strings of the model ("." of a regex).
AnyChar == LetterSet \cup DigitSet \cup SpaceSet \cup {",", ".", "-", "?", "!", "'", ":", "_"}

LowerMap ==
    [c \in UpperSet |-> Chr(LowerChars, CHOOSE i \in 1..Len(UpperChars) : Chr(UpperChars, i) = c)]

UpperMap ==
    [c \in LowerSet |-> Chr(UpperChars, CHOOSE i \in 1..Len(LowerChars) : Chr(LowerChars, i) = c)]

LowerOf(c) == IF c \in UpperSet THEN LowerMap[c] ELSE c

UpperOf(c) == IF c \in LowerSet THEN UpperMap[c] ELSE c

RECURSIVE toLowerCase(_)
toLowerCase(s) ==
    IF Len(s) = 0 THEN "" ELSE LowerOf(Chr(s, 1)) \o toLowerCase(SubSeq(s, 2, Len(s)))

RECURSIVE toUpperCase(_)
toUpperCase(s) ==
    IF Len(s) = 0 THEN "" ELSE UpperOf(Chr(s, 1)) \o toUpperCase(SubSeq(s, 2, Len(s)))

RECURSIVE trimStart(_)
trimStart(s) ==
    IF Len(s) > 0 /\ Chr(s, 1) \in SpaceSet THEN trimStart(SubSeq(s, 2, Len(s))) ELSE s

RECURSIVE trimEnd(_)
trimEnd(s) ==
    IF Len(s) > 0 /\ Chr(s, Len(s)) \in SpaceSet THEN trimEnd(SubSeq(s, 1, Len(s) - 1)) ELSE s

trim(s) == trimEnd(trimStart(s))

\* s.includes(t)
includes(s, t) ==
    \E i \in 1..(Len(s) - Len(t) + 1) : SubSeq(s, i, i + Len(t) - 1) = t

\* s.split(sep) for a one-character separator
RECURSIVE splitFrom(_, _, _, _)
splitFrom(s, sep, i, start) ==
    IF i > Len(s) THEN <<SubSeq(s, start, Len(s))>>
    ELSE IF Chr(s, i) = sep
         THEN <<SubSeq(s, start, i - 1)>> \o splitFrom(s, sep, i + 1, i + 1)
         ELSE splitFrom(s, sep, i + 1, start)

split(s, sep) == splitFrom(s, sep, 1, 1)

\* parts.join(sep)
RECURSIVE join(_, _)
join(parts, sep) ==
    IF Len(parts) = 0 THEN ""
    ELSE IF Len(parts) = 1 THEN parts[1]
    ELSE parts[1] \o sep \o join(Tail(parts), sep)

\* s.replace(/[chars]/g, '')
RECURSIVE removeChars(_, _)
removeChars(s, chars) ==
    IF Len(s) = 0 THEN ""
    ELSE (IF Chr(s, 1) \in chars THEN "" ELSE Chr(s, 1)) \o removeChars(SubSeq(s, 2, Len(s)), chars)

\* array.includes(x)
arrayIncludes(arr, x) == \E i \in 1..Len(arr) : arr[i] = x

\* array.slice(0, n)
slice0(arr, n) == SubSeq(arr, 1, IF n < Len(arr) THEN n ELSE Len(arr))

(***************************************************************************)
(* Regular expressions.  A pattern is a tree of tuples; Match returns the  *)
(* sequence of <<end position, capture 1>> a backtracking matcher would    *)
(* try, in its order of preference, so the head is the match it reports.   *)
(*   <<"lit", w>>            the literal w, compared case-insensitively    *)
(*   <<"seq", <<p1, ...>>>>  concatenation                                 *)
(*   <<"alt", <<p1, ...>>>>  alternation, leftmost alternative first       *)
(*   <<"opt", p>>            p?                                            *)
(*   <<"rep", cls, lo, hi, lazy>>  [cls]{lo,hi} or [cls]{lo,hi}?           *)
(*   <<"cap", p>>            capture group 1                               *)
(*   <<"grp", p>>            another capture group (not recorded)          *)
(*   <<"bol">>, <<"eol">>, <<"wb">>    ^, $ and \b                         *)
(***************************************************************************)
NoCap == "<none>"

\* The upper limit of the quantifiers + and *: RunLength never counts down to it.
Unbounded == -1

IsWordChar(c) == c \in LetterSet \cup DigitSet \cup {"_"}

AtWordBoundary(s, i) ==
    LET before == i > 1 /\ IsWordChar(Chr(s, i - 1))
        after == i <= Len(s) /\ IsWordChar(Chr(s, i))
    IN before # after

\* The number of characters of class cls that start at position i, at most hi.
RECURSIVE RunLength(_, _, _, _)
RunLength(s, i, cls, hi) ==
    IF hi = 0 \/ i > Len(s) \/ Chr(s, i) \notin cls THEN 0
    ELSE 1 + RunLength(s, i + 1, cls, hi - 1)

\* The repetition counts lo..n in the order the matcher tries them.
RECURSIVE CountsUp(_, _)
CountsUp(lo, n) == IF lo > n THEN <<>> ELSE <<lo>> \o CountsUp(lo + 1, n)

RECURSIVE CountsDown(_, _)
CountsDown(lo, n) == IF lo > n THEN <<>> ELSE <<n>> \o CountsDown(lo, n - 1)

\* Whether the literal w, from its k-th character on, stands at position i of s.
RECURSIVE LitAt(_, _, _, _)
LitAt(s, i, w, k) ==
    \/ k > Len(w)
    \/ /\ i <= Len(s)
       /\ LowerOf(Chr(s, i)) = LowerOf(Chr(w, k))
       /\ LitAt(s, i + 1, w, k + 1)

RECURSIVE Match(_, _, _, _)
RECURSIVE MatchSeq(_, _, _, _)
RECURSIVE MatchAlt(_, _, _, _)
RECURSIVE Continue(_, _, _)

Match(p, s, i, cap) ==
    CASE p[1] = "lit" ->
            IF LitAt(s, i, p[2], 1)
            THEN << <<i + Len(p[2]), cap>> >> ELSE <<>>
      [] p[1] = "seq" -> MatchSeq(p[2], s, i, cap)
      [] p[1] = "alt" -> MatchAlt(p[2], s, i, cap)
      [] p[1] = "opt" -> Match(p[2], s, i, cap) \o << <<i, cap>> >>
      [] p[1] = "rep" ->
            LET n == RunLength(s, i, p[2], p[4])
                counts == IF p[5] THEN CountsUp(p[3], n) ELSE CountsDown(p[3], n)
            IN [k \in 1..Len(counts) |-> <<i + counts[k], cap>>]
      [] p[1] = "cap" ->
            LET inner == Match(p[2], s, i, cap)
            IN [k \in 1..Len(inner) |-> <<inner[k][1], SubSeq(s, i, inner[k][1] - 1)>>]
      [] p[1] = "grp" -> Match(p[2], s, i, cap)
      [] p[1] = "bol" -> IF i = 1 THEN << <<i, cap>> >> ELSE <<>>
      [] p[1] = "eol" -> IF i = Len(s) + 1 THEN << <<i, cap>> >> ELSE <<>>
      [] p[1] = "wb" -> IF AtWordBoundary(s, i) THEN << <<i, cap>> >> ELSE <<>>

MatchSeq(ps, s, i, cap) ==
    IF Len(ps) = 0 THEN << <<i, cap>> >>
    ELSE Continue(Match(ps[1], s, i, cap), Tail(ps), s)

Continue(results, rest, s) ==
    IF Len(results) = 0 THEN <<>>
    ELSE MatchSeq(rest, s, results[1][1], results[1][2]) \o Continue(Tail(results), rest, s)

MatchAlt(ps, s, i, cap) ==
    IF Len(ps) = 0 THEN <<>>
    ELSE Match(ps[1], s, i, cap) \o MatchAlt(Tail(ps), s, i, cap)

NoMatch == [found |-> FALSE, start |-> 0, end |-> 0, cap |-> NoCap]

\* The leftmost match of p in s at or after position from (RegExp.exec).
RECURSIVE ExecFrom(_, _, _)
ExecFrom(p, s, from) ==
    IF from > Len(s) + 1 THEN NoMatch
    ELSE LET r == Match(p, s, from, NoCap)
         IN IF Len(r) > 0
            THEN [found |-> TRUE, start |-> from, end |-> r[1][1], cap |-> r[1][2]]
            ELSE ExecFrom(p, s, from + 1)

\* s.match(p) without the g flag
Exec(p, s) == ExecFrom(p, s, 1)

\* p.test(s)
Test(p, s) == Exec(p, s).found

\* [...s.matchAll(p)] and s.match(p) with the g flag: the successive matches.
RECURSIVE MatchAllFrom(_, _, _)
MatchAllFrom(p, s, from) ==
    LET m == ExecFrom(p, s, from)
    IN IF ~m.found THEN <<>>
       ELSE <<m>> \o MatchAllFrom(p, s, IF m.end = m.start THEN m.end + 1 ELSE m.end)

MatchAll(p, s) == MatchAllFrom(p, s, 1)

Lit(w) == <<"lit", w>>

SeqOf(ps) == <<"seq", ps>>

AltOf(ps) == <<"alt", ps>>

Words(ws) == <<"alt", [k \in 1..Len(ws) |-> <<"lit", ws[k]>>]>>

Opt(p) == <<"opt", p>>

Cap(p) == <<"cap", p>>

Rep(cls, lo, hi) == <<"rep", cls, lo, hi, FALSE>>

LazyRep(cls, lo, hi) == <<"rep", cls, lo, hi, TRUE>>

\* \s+ and \s*
Ws1 == Rep(SpaceSet, 1, Unbounded)

Ws0 == Rep(SpaceSet, 0, Unbounded)

Bol == <<"bol">>

Eol == <<"eol">>

Wb == <<"wb">>

(***************************************************************************)
(* gen-agent/graph.ts: the Text Matcher.                                   *)
(***************************************************************************)
\* [a-zA-Z\s,.-]
CityChars == LetterSet \cup SpaceSet \cup {",", ".", "-"}

\* [a-zA-Z\s]
AlphaSpace == LetterSet \cup SpaceSet

\* (?:\s|$|\?|!|\.|\,)
Terminator == AltOf(<<Rep(SpaceSet, 1, 1), Eol, Lit("?"), Lit("!"), Lit("."), Lit(",")>>)

\* ([a-zA-Z\s,.-]+?)
CityGroup == Cap(LazyRep(CityChars, 1, Unbounded))

InForAtOf == Words(<<"in", "for", "at", "of">>)

abbreviations ==
    [nyc |-> "New York", ny |-> "New York", la |-> "Los Angeles", sf |-> "San Francisco",
     dc |-> "Washington DC", atl |-> "Atlanta", chi |-> "Chicago",
     philly |-> "Philadelphia", vegas |-> "Las Vegas", miami |-> "Miami",
     boston |-> "Boston"]

\* word.charAt(0).toUpperCase() + word.slice(1).toLowerCase()
capitalize(word) ==
    IF Len(word) = 0 THEN ""
    ELSE UpperOf(Chr(word, 1)) \o toLowerCase(SubSeq(word, 2, Len(word)))

formatCityName(city) ==
    LET lowerCity == trim(toLowerCase(city))
        words == split(city, " ")
    IN IF lowerCity \in DOMAIN abbreviations THEN abbreviations[lowerCity]
       ELSE join([k \in 1..Len(words) |-> capitalize(words[k])], " ")

patterns ==
    << SeqOf(<<Lit("weather"), Ws1, InForAtOf, Ws1, CityGroup, Terminator>>),
       SeqOf(<<InForAtOf, Ws1, CityGroup, Ws1, Lit("weather")>>),
       SeqOf(<<CityGroup, Ws1, Lit("weather")>>),
       SeqOf(<<Lit("weather"), Ws1, CityGroup, Terminator>>),
       SeqOf(<<Words(<<"what's", "whats", "how's", "hows">>), Ws1,
               Opt(SeqOf(<<Lit("the"), Ws1>>)), Lit("weather"), Ws1,
               Opt(SeqOf(<<Lit("like"), Ws1>>)), Words(<<"in", "at", "of">>), Ws1,
               CityGroup, Terminator>>),
       SeqOf(<<Words(<<"temperature", "temp", "forecast">>), Ws1,
               Words(<<"in", "at", "for", "of">>), Ws1, CityGroup, Terminator>>),
       SeqOf(<<Bol, CityGroup, Ws1, Words(<<"weather", "temperature", "temp", "forecast">>)>>),
       SeqOf(<<Lit("show"), Ws1, Opt(SeqOf(<<Lit("me"), Ws1>>)),
               Opt(SeqOf(<<Lit("the"), Ws1>>)), Lit("weather"), Ws1, InForAtOf, Ws1,
               CityGroup, Terminator>>),
       SeqOf(<<Words(<<"going", "traveling", "visiting", "trip">>), Ws1,
               Opt(SeqOf(<<Lit("to"), Ws1>>)), CityGroup, Terminator>>),
       SeqOf(<<Cap(LazyRep(AlphaSpace, 1, Unbounded)), Lit(","), Ws0,
               <<"grp", LazyRep(AlphaSpace, 1, Unbounded)>>,
               AltOf(<<Rep(SpaceSet, 1, 1), Eol, Lit("?"), Lit("!"), Lit(".")>>)>>) >>

invalidWords ==
    <<"weather", "temperature", "temp", "forecast", "today", "tomorrow",
      "like", "the", "is", "very", "show", "me", "what", "how", "there",
      "here", "now", "currently", "right", "good", "bad", "nice">>

skipWords ==
    <<"Weather", "Temperature", "Today", "Tomorrow", "What", "How", "The", "Is",
      "Show", "Me", "Give", "Tell", "Please", "Thanks", "Hello", "Hi">>

\* match[1].trim().replace(/[?.!]/g, '').replace(/,$/, ''), then the part before a comma
cleanCity(captured) ==
    LET a == removeChars(trim(captured), {"?", ".", "!"})
        b == IF Len(a) > 0 /\ Chr(a, Len(a)) = "," THEN SubSeq(a, 1, Len(a) - 1) ELSE a
    IN IF includes(b, ",") THEN trim(split(b, ",")[1]) ELSE b

\* The city the k-th and later patterns give, or NoCap when none survives the filter.
RECURSIVE patternCity(_, _)
patternCity(message, k) ==
    IF k > Len(patterns) THEN NoCap
    ELSE LET m == Exec(patterns[k], message)
             city == cleanCity(m.cap)
         IN IF m.found /\ Len(m.cap) > 0 /\ Len(city) > 1 /\ Len(city) < 50
               /\ ~arrayIncludes(invalidWords, toLowerCase(city))
            THEN formatCityName(city)
            ELSE patternCity(message, k + 1)

\* /\b[A-Z][a-zA-Z\s]{1,30}\b/g
properNounPattern == SeqOf(<<Wb, Rep(UpperSet, 1, 1), Rep(AlphaSpace, 1, 30), Wb>>)

RECURSIVE firstProperNoun(_, _)
firstProperNoun(nouns, k) ==
    IF k > Len(nouns) THEN NoCap
    ELSE LET cleanNoun == trim(nouns[k])
         IN IF ~arrayIncludes(skipWords, cleanNoun) /\ Len(cleanNoun) > 2 /\ Len(cleanNoun) < 30
            THEN formatCityName(cleanNoun)
            ELSE firstProperNoun(nouns, k + 1)

extractCityFromPattern(message) ==
    LET byPattern == patternCity(message, 1)
        found == MatchAll(properNounPattern, message)
        properNouns == [k \in 1..Len(found) |-> SubSeq(message, found[k].start, found[k].end - 1)]
        byNoun == firstProperNoun(properNouns, 1)
    IN IF byPattern # NoCap THEN byPattern
       ELSE IF byNoun # NoCap THEN byNoun
       ELSE "New York"

(***************************************************************************)
(* Outcomes of the external capabilities.  A call either fails (throws) or *)
(* returns a text; a structured completion returns an object.              *)
(***************************************************************************)
Failed == [ok |-> FALSE, text |-> ""]

Returned(t) == [ok |-> TRUE, text |-> t]

\* null of JavaScript
Null == "<null>"

\* The truthiness of a string-or-null value
Truthy(x) == x # Null /\ x # ""

(***************************************************************************)
(* gen-agent/graph.ts: the Entity Resolver.                                *)
(***************************************************************************)
\* extractCityWithLLM: completion is the outcome of loadChatModel and model.invoke
extractCityWithLLM(completion) ==
    IF ~completion.ok THEN Null
    ELSE LET extractedCity == trim(completion.text)
         IN IF Truthy(extractedCity) /\ extractedCity # "unknown"
               /\ Len(extractedCity) > 1 /\ Len(extractedCity) < 50
            THEN formatCityName(extractedCity)
            ELSE Null

\* .* of a regular expression
AnyRun == Rep(AnyChar, 0, Unbounded)

cityConfirmationPatterns(cityCandidate) ==
    << SeqOf(<<Lit(cityCandidate), AnyRun, Words(<<"city", "weather", "temperature">>)>>),
       SeqOf(<<Lit("weather"), AnyRun, Lit(cityCandidate)>>),
       SeqOf(<<Lit(cityCandidate), AnyRun, Words(<<"located", "population", "capital">>)>>) >>

\* validateCityWithSearch: search is the outcome of tavilySearch.invoke
validateCityWithSearch(cityCandidate, search) ==
    IF ~search.ok THEN Null
    ELSE IF \E k \in 1..3 : Test(cityConfirmationPatterns(cityCandidate)[k], search.text)
         THEN formatCityName(cityCandidate)
         ELSE Null

\* With the i flag [A-Z] and [a-z] match a letter of either case.
searchCityPatterns ==
    << SeqOf(<<Lit("weather"), Ws1, Words(<<"in", "for", "at">>), Ws1,
               Cap(LazyRep(AlphaSpace, 1, Unbounded)),
               AltOf(<<Lit(","), Rep(SpaceSet, 1, 1), Eol>>)>>),
       SeqOf(<<Cap(LazyRep(AlphaSpace, 1, Unbounded)), Ws1, Lit("weather")>>),
       SeqOf(<<Words(<<"city", "location">>), LazyRep(AnyChar, 0, Unbounded),
               Cap(SeqOf(<<Rep(LetterSet, 1, 1), Rep(LetterSet, 1, Unbounded),
                           Opt(SeqOf(<<Ws1, Rep(LetterSet, 1, 1),
                                       Rep(LetterSet, 1, Unbounded)>>))>>))>>) >>

\* The first candidate of length in (2, 30) among the matches from the k-th on.
RECURSIVE firstCandidate(_, _)
firstCandidate(matches, k) ==
    IF k > Len(matches) THEN Null
    ELSE LET candidate == trim(matches[k].cap)
         IN IF Len(matches[k].cap) > 0 /\ Len(candidate) > 2 /\ Len(candidate) < 30
            THEN formatCityName(candidate)
            ELSE firstCandidate(matches, k + 1)

RECURSIVE searchCandidate(_, _)
searchCandidate(resultStr, k) ==
    IF k > Len(searchCityPatterns) THEN Null
    ELSE LET c == firstCandidate(MatchAll(searchCityPatterns[k], resultStr), 1)
         IN IF c # Null THEN c ELSE searchCandidate(resultStr, k + 1)

\* extractCityFromSearch: search is the outcome of tavilySearch.invoke
extractCityFromSearch(search) ==
    IF ~search.ok THEN Null ELSE searchCandidate(search.text, 1)

regionalHints ==
    << <<"New York", <<"east coast", "northeast", "ny", "nyc", "manhattan", "brooklyn">>>>,
       <<"Los Angeles", <<"west coast", "california", "la", "hollywood", "beverly hills">>>>,
       <<"Chicago", <<"midwest", "illinois", "windy city">>>>,
       <<"Miami", <<"florida", "south florida", "southeast">>>>,
       <<"Seattle", <<"pacific northwest", "washington", "tech">>>>,
       <<"London", <<"uk", "england", "britain", "british">>>>,
       <<"Paris", <<"france", "french", "europe">>>>,
       <<"Tokyo", <<"japan", "japanese", "asia">>>>,
       <<"Sydney", <<"australia", "aussie", "down under">>>>,
       <<"Mumbai", <<"india", "indian", "bollywood">>>>,
       <<"Dubai", <<"uae", "middle east", "emirates">>>> >>

businessCities == <<"New York", "London", "Tokyo", "Singapore", "Frankfurt">>

entertainmentCities == <<"Los Angeles", "Las Vegas", "Miami", "Barcelona", "Sydney">>

globalCities == <<"New York", "London", "Paris", "Tokyo", "Sydney", "Los Angeles">>

\* Math.random() returns rnd / RandDen, a number in [0, 1).
RandDen == 1000

\* Math.floor(Math.random() * n)
floorRandom(rnd, n) == (rnd * n) \div RandDen

\* getSmartFallbackCity: hour is new Date().getHours(), rnd the value of Math.random()
getSmartFallbackCity(message, hour, rnd) ==
    LET messageContent == toLowerCase(message)
        hinted == {k \in 1..Len(regionalHints) :
                      \E h \in 1..Len(regionalHints[k][2]) :
                          includes(messageContent, regionalHints[k][2][h])}
    IN IF hinted # {} THEN regionalHints[CHOOSE k \in hinted : \A j \in hinted : k <= j][1]
       ELSE IF hour >= 6 /\ hour < 12
            THEN businessCities[floorRandom(rnd, Len(businessCities)) + 1]
       ELSE IF hour >= 18 /\ hour < 24
            THEN entertainmentCities[floorRandom(rnd, Len(entertainmentCities)) + 1]
       ELSE globalCities[floorRandom(rnd, Len(globalCities)) + 1]

(***************************************************************************)
(* gen-agent/graph.ts: the Locality Catalog and the Locality Expander.     *)
(***************************************************************************)
nearbyCitiesMap ==
    (  "chennai" :> <<"Mumbai", "Bangalore", "Hyderabad", "Kolkata">>
    @@ "mumbai" :> <<"Delhi", "Bangalore", "Chennai", "Pune">>
    @@ "delhi" :> <<"Noida", "Gurgaon", "Jaipur", "Chandigarh">>
    @@ "bangalore" :> <<"Chennai", "Mysore", "Hyderabad", "Mumbai">>
    @@ "kolkata" :> <<"Bhubaneswar", "Patna", "Guwahati", "Delhi">>
    @@ "hyderabad" :> <<"Bangalore", "Chennai", "Mumbai", "Pune">>
    @@ "pune" :> <<"Mumbai", "Nashik", "Aurangabad", "Bangalore">>
    @@ "ahmedabad" :> <<"Mumbai", "Surat", "Vadodara", "Pune">>
    @@ "jaipur" :> <<"Delhi", "Jodhpur", "Udaipur", "Agra">>
    @@ "new york" :> <<"Boston", "Philadelphia", "Washington DC", "Chicago">>
    @@ "los angeles" :> <<"San Francisco", "San Diego", "Las Vegas", "Phoenix">>
    @@ "chicago" :> <<"Detroit", "Milwaukee", "Indianapolis", "St Louis">>
    @@ "houston" :> <<"Dallas", "Austin", "San Antonio", "New Orleans">>
    @@ "miami" :> <<"Orlando", "Tampa", "Jacksonville", "Atlanta">>
    @@ "boston" :> <<"New York", "Hartford", "Providence", "Portland">>
    @@ "seattle" :> <<"Portland", "Vancouver", "San Francisco", "Spokane">>
    @@ "denver" :> <<"Salt Lake City", "Phoenix", "Albuquerque", "Colorado Springs">>
    @@ "atlanta" :> <<"Charlotte", "Nashville", "Birmingham", "Jacksonville">>
    @@ "philadelphia" :> <<"New York", "Baltimore", "Washington DC", "Pittsburgh">>
    @@ "phoenix" :> <<"Tucson", "Las Vegas", "Albuquerque", "San Diego">>
    @@ "san francisco" :> <<"Los Angeles", "Sacramento", "San Jose", "Oakland">>
    @@ "washington dc" :> <<"Baltimore", "Richmond", "Philadelphia", "Norfolk">>
    @@ "dallas" :> <<"Houston", "Austin", "Oklahoma City", "Fort Worth">>
    @@ "detroit" :> <<"Chicago", "Cleveland", "Toledo", "Grand Rapids">>
    @@ "las vegas" :> <<"Los Angeles", "Phoenix", "Reno", "Salt Lake City">>
    @@ "london" :> <<"Manchester", "Birmingham", "Liverpool", "Edinburgh">>
    @@ "paris" :> <<"Lyon", "Marseille", "Toulouse", "Nice">>
    @@ "berlin" :> <<"Munich", "Hamburg", "Frankfurt", "Cologne">>
    @@ "madrid" :> <<"Barcelona", "Valencia", "Seville", "Bilbao">>
    @@ "rome" :> <<"Milan", "Naples", "Florence", "Venice">>
    @@ "amsterdam" :> <<"Rotterdam", "Utrecht", "The Hague", "Brussels">>
    @@ "barcelona" :> <<"Madrid", "Valencia", "Seville", "Bilbao">>
    @@ "milan" :> <<"Rome", "Turin", "Florence", "Venice">>
    @@ "munich" :> <<"Berlin", "Frankfurt", "Stuttgart", "Vienna">>
    @@ "manchester" :> <<"London", "Liverpool", "Leeds", "Birmingham">>
    @@ "tokyo" :> <<"Osaka", "Kyoto", "Yokohama", "Nagoya">>
    @@ "beijing" :> <<"Shanghai", "Guangzhou", "Shenzhen", "Tianjin">>
    @@ "shanghai" :> <<"Beijing", "Hangzhou", "Suzhou", "Nanjing">>
    @@ "singapore" :> <<"Kuala Lumpur", "Bangkok", "Jakarta", "Manila">>
    @@ "hong kong" :> <<"Macau", "Guangzhou", "Shenzhen", "Taipei">>
    @@ "seoul" :> <<"Busan", "Incheon", "Daegu", "Daejeon">>
    @@ "bangkok" :> <<"Chiang Mai", "Phuket", "Pattaya", "Singapore">>
    @@ "dubai" :> <<"Abu Dhabi", "Doha", "Kuwait City", "Riyadh">>
    @@ "sydney" :> <<"Melbourne", "Brisbane", "Perth", "Adelaide">>
    @@ "melbourne" :> <<"Sydney", "Adelaide", "Canberra", "Geelong">>
    @@ "brisbane" :> <<"Sydney", "Gold Coast", "Melbourne", "Cairns">>
    @@ "perth" :> <<"Adelaide", "Darwin", "Melbourne", "Sydney">>
    @@ "toronto" :> <<"Montreal", "Ottawa", "Vancouver", "Calgary">>
    @@ "vancouver" :> <<"Seattle", "Calgary", "Toronto", "Victoria">>
    @@ "montreal" :> <<"Toronto", "Quebec City", "Ottawa", "Halifax">>
    @@ "calgary" :> <<"Vancouver", "Edmonton", "Toronto", "Winnipeg">>
    @@ "sao paulo" :> <<"Rio de Janeiro", "Brasilia", "Salvador", "Fortaleza">>
    @@ "buenos aires" :> <<"Montevideo", "Santiago", "Cordoba", "Rosario">>
    @@ "lima" :> <<"Arequipa", "Trujillo", "Chiclayo", "Cusco">>
    @@ "cairo" :> <<"Alexandria", "Giza", "Luxor", "Aswan">>
    @@ "johannesburg" :> <<"Cape Town", "Durban", "Pretoria", "Port Elizabeth">>
    @@ "lagos" :> <<"Abuja", "Kano", "Ibadan", "Port Harcourt">>
    @@ "default" :> <<"New York", "London", "Tokyo", "Sydney", "Paris">> )

regions ==
    << <<"north_america", <<"new york", "los angeles", "chicago", "toronto", "vancouver",
                            "montreal", "dallas", "miami", "boston", "seattle",
                            "san francisco", "phoenix", "atlanta", "philadelphia",
                            "detroit", "denver">>>>,
       <<"europe", <<"london", "paris", "berlin", "madrid", "rome", "amsterdam", "barcelona",
                     "vienna", "prague", "stockholm", "copenhagen", "oslo", "helsinki",
                     "dublin", "brussels">>>>,
       <<"asia", <<"tokyo", "beijing", "shanghai", "singapore", "hong kong", "seoul",
                   "bangkok", "mumbai", "delhi", "bangalore", "manila", "jakarta",
                   "kuala lumpur">>>>,
       <<"oceania", <<"sydney", "melbourne", "brisbane", "perth", "adelaide", "auckland",
                      "wellington">>>>,
       <<"africa", <<"cairo", "johannesburg", "cape town", "lagos", "casablanca", "nairobi">>>>,
       <<"south_america", <<"sao paulo", "buenos aires", "lima", "bogota", "santiago",
                            "rio de janeiro">>>> >>

detectRegion(city) ==
    LET cityLower == toLowerCase(city)
        hits == {k \in 1..Len(regions) : arrayIncludes(regions[k][2], cityLower)}
    IN IF hits # {} THEN regions[CHOOSE k \in hits : \A j \in hits : k <= j][1]
       ELSE "global"

regionalDefaultsTable ==
    [north_america |-> <<"New York", "Los Angeles", "Chicago", "Toronto">>,
     europe |-> <<"London", "Paris", "Berlin", "Madrid">>,
     asia |-> <<"Tokyo", "Singapore", "Hong Kong", "Seoul">>,
     oceania |-> <<"Sydney", "Melbourne", "Auckland", "Brisbane">>,
     africa |-> <<"Cairo", "Johannesburg", "Cape Town", "Lagos">>,
     south_america |-> <<"Sao Paulo", "Buenos Aires", "Lima", "Santiago">>,
     global |-> <<"New York", "London", "Tokyo", "Sydney">>]

getRegionalDefaults(region) ==
    IF region \in DOMAIN regionalDefaultsTable THEN regionalDefaultsTable[region]
    ELSE regionalDefaultsTable["global"]

\* [A-Z][a-zA-Z\s]{2,25} and [A-Z][a-zA-Z\s,]{5,50} under the i flag
NearName == Cap(SeqOf(<<Rep(LetterSet, 1, 1), Rep(AlphaSpace, 2, 25)>>))

NearList == Cap(SeqOf(<<Rep(LetterSet, 1, 1), Rep(AlphaSpace \cup {","}, 5, 50)>>))

nearbyCityPatterns ==
    << SeqOf(<<Words(<<"near", "nearby", "close to", "around">>), Ws1, NearName,
               AltOf(<<Lit(","), Rep(SpaceSet, 1, 1), Eol>>)>>),
       SeqOf(<<NearName, Ws1, Words(<<"is", "are">>), Ws1, Words(<<"near", "nearby", "close">>)>>),
       SeqOf(<<Lit("citie"), Opt(Lit("s")), Ws1, Words(<<"like", "including", "such as">>),
               Ws1, NearList>>),
       SeqOf(<<Lit("metropolitan"), Ws1, Lit("area"), LazyRep(AnyChar, 0, Unbounded),
               Words(<<"includes", "contains">>), Ws1, NearList>>) >>

\* The push of the inner loops: city is appended when it is new, not mainCity, and
\* the list holds fewer than limit entries.
pushCity(discoveredCities, city, mainCity, limit) ==
    IF ~arrayIncludes(discoveredCities, city)
       /\ toLowerCase(city) # toLowerCase(mainCity)
       /\ Len(discoveredCities) < limit
    THEN Append(discoveredCities, city)
    ELSE discoveredCities

RECURSIVE pushFormatted(_, _, _, _)
pushFormatted(discoveredCities, cities, mainCity, k) ==
    IF k > Len(cities) THEN discoveredCities
    ELSE pushFormatted(
            IF Len(cities[k]) > 2 /\ Len(cities[k]) < 30
            THEN pushCity(discoveredCities, formatCityName(cities[k]), mainCity, 6)
            ELSE discoveredCities,
            cities, mainCity, k + 1)

RECURSIVE pushMatches(_, _, _, _)
pushMatches(discoveredCities, matches, mainCity, k) ==
    IF k > Len(matches) THEN discoveredCities
    ELSE LET parts == split(trim(matches[k].cap), ",")
             cities == [j \in 1..Len(parts) |-> trim(parts[j])]
         IN pushMatches(
                IF Len(matches[k].cap) > 0
                THEN pushFormatted(discoveredCities, cities, mainCity, 1)
                ELSE discoveredCities,
                matches, mainCity, k + 1)

RECURSIVE pushPatterns(_, _, _, _)
pushPatterns(discoveredCities, resultStr, mainCity, k) ==
    IF k > Len(nearbyCityPatterns) THEN discoveredCities
    ELSE pushPatterns(
            pushMatches(discoveredCities, MatchAll(nearbyCityPatterns[k], resultStr), mainCity, 1),
            resultStr, mainCity, k + 1)

RECURSIVE pushDefaults(_, _, _, _)
pushDefaults(discoveredCities, regionalDefaults, mainCity, k) ==
    IF k > Len(regionalDefaults) THEN discoveredCities
    ELSE pushDefaults(pushCity(discoveredCities, regionalDefaults[k], mainCity, 4),
                      regionalDefaults, mainCity, k + 1)

\* discoverNearbyCities: search is the outcome of tavilySearch.invoke
discoverNearbyCities(mainCity, search) ==
    IF ~search.ok THEN <<>>
    ELSE LET found == pushPatterns(<<>>, search.text, mainCity, 1)
             filled == IF Len(found) < 3
                       THEN pushDefaults(found, getRegionalDefaults(detectRegion(mainCity)),
                                         mainCity, 1)
                       ELSE found
         IN slice0(filled, 4)

\* nearbyCitiesMap[mainCityLower] || nearbyCitiesMap["default"]
inCatalog(mainCity) == toLowerCase(mainCity) \in DOMAIN nearbyCitiesMap

\* The nearby cities of weatherNode: the catalog row, else the discovered cities
\* when there are any, else the default row.
nearbyCitiesOf(mainCity, discoveredCities) ==
    IF inCatalog(mainCity) THEN nearbyCitiesMap[toLowerCase(mainCity)]
    ELSE IF Len(discoveredCities) > 0 THEN discoveredCities
    ELSE nearbyCitiesMap["default"]

\* allCities without the slice of the nearby cities.
buildAllCitiesUnsliced(mainCity, nearbyCities) == <<mainCity>> \o nearbyCities

\* [mainCity, ...nearbyCities.slice(0, 4)]
buildAllCities(mainCity, nearbyCities) == <<mainCity>> \o slice0(nearbyCities, 4)

(***************************************************************************)
(* The Data Aggregator.                                                    *)
(***************************************************************************)
indianCities ==
    <<"chennai", "mumbai", "delhi", "bangalore", "kolkata", "hyderabad", "pune", "ahmedabad",
      "jaipur", "lucknow", "noida", "gurgaon", "chandigarh", "mysore", "bhubaneswar", "patna",
      "guwahati">>

ukCities == <<"london", "manchester", "birmingham", "liverpool", "edinburgh", "dublin">>

usCities ==
    <<"new york", "los angeles", "chicago", "boston", "miami", "seattle", "washington dc",
      "philadelphia", "san francisco">>

detectCountry(city) ==
    LET cityLower == toLowerCase(city)
    IN IF arrayIncludes(indianCities, cityLower) THEN "India"
       ELSE IF arrayIncludes(ukCities, cityLower) THEN "UK"
       ELSE IF arrayIncludes(usCities, cityLower) THEN "USA"
       ELSE "Unknown"

\* The values Math.random() takes in the model, in units of 1 / RandDen; the
\* generator hands them out in this order, starting anywhere.
RandomTape == <<0, RandDen - 1, RandDen \div 2>>

RandomSamples == {RandomTape[k] : k \in 1..Len(RandomTape)}

Seeds == 1..Len(RandomTape)

\* The j-th value of Math.random() after the generator was at position seed.
Draw(seed, j) == RandomTape[((seed + j - 2) % Len(RandomTape)) + 1]

conditions ==
    << [condition |-> "Sunny", icon |-> "sunny"],
       [condition |-> "Partly Cloudy", icon |-> "cloudy"],
       [condition |-> "Cloudy", icon |-> "cloudy"],
       [condition |-> "Rainy", icon |-> "rainy"] >>

\* gen-agent createFallbackWeatherData; its four draws are those from seed on.
createFallbackWeatherData(city, id, seed) ==
    LET randomCondition == conditions[floorRandom(Draw(seed, 1), Len(conditions)) + 1]
    IN [id |-> id,
        city |-> UpperOf(Chr(city, 1)) \o SubSeq(city, 2, Len(city)),
        country |-> detectCountry(city),
        temp |-> floorRandom(Draw(seed, 2), 30) + 60,
        condition |-> randomCondition.condition,
        humidity |-> floorRandom(Draw(seed, 3), 40) + 40,
        windSpeed |-> floorRandom(Draw(seed, 4), 15) + 5,
        icon |-> randomCondition.icon]

\* cities.map((city, index) => createFallbackWeatherData(city, index + 1))
fallbackList(cities, seed) ==
    [k \in 1..Len(cities) |-> createFallbackWeatherData(cities[k], k, seed + 4 * (k - 1))]

\* A conversion that numbers the records by their index, from 0.
convertResponseFromZero(weatherData) ==
    [k \in 1..Len(weatherData) |->
        [id |-> k - 1,
         city |-> weatherData[k].city,
         country |-> detectCountry(weatherData[k].city),
         temp |-> weatherData[k].temp,
         condition |-> weatherData[k].condition,
         humidity |-> weatherData[k].humidity,
         windSpeed |-> weatherData[k].windSpeed,
         icon |-> weatherData[k].icon]]

\* response.weatherData.map((data, index) => ({id: index + 1, ...}))
convertResponse(weatherData) ==
    [k \in 1..Len(weatherData) |->
        [id |-> k,
         city |-> weatherData[k].city,
         country |-> detectCountry(weatherData[k].city),
         temp |-> weatherData[k].temp,
         condition |-> weatherData[k].condition,
         humidity |-> weatherData[k].humidity,
         windSpeed |-> weatherData[k].windSpeed,
         icon |-> weatherData[k].icon]]

\* parseWeatherWithLLM: completion is the outcome of loadChatModel and of the
\* structured completion; the search results only enter the prompt.
parseWeatherWithLLM(searchResults, cities, completion, seed) ==
    IF completion.ok THEN convertResponse(completion.weatherData)
    ELSE fallbackList(cities, seed)

(***************************************************************************)
(* The Intent Classifier and the router.                                   *)
(***************************************************************************)
Intents == {"weather", "general", "news", "sports", "finance"}

\* The keyword list without "temperature"
weatherKeywordsShort ==
    <<"weather", "forecast", "climate", "sunny", "rainy", "cloudy", "cold", "hot", "degrees">>

weatherKeywords ==
    <<"weather", "temperature", "forecast", "climate", "sunny", "rainy", "cloudy", "cold",
      "hot", "degrees">>

isWeatherQuery(userMessage) ==
    \E k \in 1..Len(weatherKeywords) : includes(toLowerCase(userMessage), weatherKeywords[k])

\* A router that sends everything but a general intent to the weather node.
routeNotGeneral(stateIntent) ==
    IF stateIntent # "general" THEN "weather" ELSE "general"

routeAfterClassification(stateIntent) ==
    IF stateIntent = "weather" THEN "weather" ELSE "general"

(***************************************************************************)
(* The inputs of a turn: the utterance and what the external capabilities  *)
(* answer.                                                                 *)
(***************************************************************************)
Utterances ==
    {"What's the weather in New York?", "NYC weather please", "New York weather",
     "temperature in DC", "Hello there"}

\* extractedEntities.city of a classification
ClassifiedCities == {Null, "New York", "NYC"}

\* The structured completion of the classification: a failure or an object of
\* IntentClassificationSchema (confidence and topic are never read).
Classifications ==
    {[ok |-> FALSE, intent |-> "", city |-> Null]}
    \cup {[ok |-> TRUE, intent |-> i, city |-> c] : i \in Intents, c \in ClassifiedCities}

\* What the chat model answers to the city-extraction prompt
CityAnswers == {Failed, Returned("unknown"), Returned("Springfield"), Returned("dc")}

\* What a text search of the resolver or the expander returns
SearchOutcomes ==
    {Failed,
     Returned("Weather in Oslo near Springfield, Washington DC today"),
     Returned("Major cities like Shelbyville, SHELBYVILLE, springfield, Ogdenville")}

\* What the weather search of one city returns
WeatherSearchOutcomes == {Failed, Returned("22 C with storm, humidity: 60, wind: 12 mph")}

Hours == {3, 9, 20}

\* The records a batched completion returns for the cities, as positions of the
\* cities in the order of the answer; 0 stands for a city nobody asked for.
ResponseShapes(n) ==
    { [k \in 1..n |-> k],
      <<>>,
      [k \in 1..(n - 1) |-> k],
      [k \in 1..(n - 1) |-> k + 1],
      [k \in 1..n |-> n + 1 - k],
      [k \in 1..(n + 1) |-> IF k <= n THEN k ELSE 0] }

ResponseLooks ==
    { [condition |-> "Rainy", icon |-> "rainy", temp |-> 72, humidity |-> 55, windSpeed |-> 10],
      [condition |-> "Sunny", icon |-> "rainy", temp |-> 41, humidity |-> 30, windSpeed |-> 3] }

weatherDataOf(cities, shape, look) ==
    [k \in 1..Len(shape) |->
        [city |-> IF shape[k] = 0 THEN "Atlantis" ELSE cities[shape[k]],
         country |-> "Unknown",
         temp |-> look.temp,
         condition |-> look.condition,
         humidity |-> look.humidity,
         windSpeed |-> look.windSpeed,
         icon |-> look.icon]]

\* The outcome of the batched structured completion: a failure or an object of
\* WeatherResponseSchema.
WeatherCompletions(cities) ==
    {[ok |-> FALSE, weatherData |-> <<>>]}
    \cup {[ok |-> TRUE, weatherData |-> weatherDataOf(cities, shape, look)] :
             shape \in ResponseShapes(Len(cities)), look \in ResponseLooks}

(***************************************************************************)
(* The state of a turn of the gen-agent graph.                             *)
(***************************************************************************)
VARIABLES
    pc,               \* the statement the turn is at
    visited,          \* the nodes entered so far, in order
    userMessage,      \* the content of the last message of state.messages
    intent,           \* AgentState.intent
    extractedCity,    \* AgentState.extractedCity
    response,         \* the content of the message the node returned
    ui,               \* the widgets pushed
    classIntent,      \* callModelNode: the intent it is about to return
    exCaller,         \* extractCityFromMessage: the node that awaits it
    patternExtracted, \* extractCityFromMessage: patternExtracted
    llmExtracted,     \* extractCityFromMessage: llmExtracted
    mainCity,         \* weatherNode: mainCity
    allCities,        \* weatherNode: allCities
    allSearchResults, \* weatherNode: allSearchResults
    searchIndex,      \* weatherNode: the position of the loop over allCities
    weatherDataList,  \* weatherNode: weatherDataList or fallbackCities
    recordsOrigin,    \* where the records came from: completion, fallback or none
    classification,   \* callModelNode: the outcome of the structured completion
    calls,            \* the calls of external capabilities awaited so far, in order
    videos,           \* YouTubeCarousel: the videos prop, as the list of video ids
    currentIndex,     \* YouTubeCarousel and WeatherCarousel: currentIndex
    carouselCities,   \* WeatherCarousel: the cities state
    searchTerm,       \* WeatherCarousel: searchTerm
    clock,            \* the value Date.now() returns next
    valuesUi,         \* useStreamContext().values.ui
    processedRef,     \* CustomComponent: processedRef.current of each message's component
    canvasContent,    \* CanvasProvider: canvasContent
    canvasVisible     \* CanvasProvider: canvasVisible

vars ==
    <<pc, visited, userMessage, intent, extractedCity, response, ui, classIntent, exCaller,
      patternExtracted, llmExtracted, mainCity, allCities, allSearchResults, searchIndex,
      weatherDataList, recordsOrigin, classification, calls, videos, currentIndex,
      carouselCities, searchTerm, clock, valuesUi, processedRef, canvasContent, canvasVisible>>

\* The state of the components of the web client
viewVars ==
    <<videos, currentIndex, carouselCities, searchTerm, clock, valuesUi, processedRef,
      canvasContent, canvasVisible>>

NoResponse == "<no response>"

resolverVars == <<classIntent, exCaller, patternExtracted, llmExtracted>>

weatherVars ==
    <<mainCity, allCities, allSearchResults, searchIndex, weatherDataList, recordsOrigin>>

\* No classification has been asked for yet.
NotClassified == [ok |-> FALSE, intent |-> "<none>", city |-> Null]

\* The log after awaiting the capability call with argument arg
Called(call, arg, ok) == Append(calls, [call |-> call, arg |-> arg, ok |-> ok])

\* canvasContent of a canvas that shows nothing: null
NoCanvasContent == [message |-> Null, components |-> <<>>]

\* No component of the web client is mounted.
ViewIdle ==
    /\ videos = <<>>
    /\ currentIndex = 0
    /\ carouselCities = <<>>
    /\ searchTerm = ""
    /\ clock = 0
    /\ valuesUi = <<>>
    /\ processedRef = <<>>
    /\ canvasContent = NoCanvasContent
    /\ canvasVisible = FALSE

Init ==
    /\ pc = "Start"
    /\ visited = <<>>
    /\ userMessage \in Utterances
    /\ intent = ""
    /\ extractedCity = ""
    /\ response = NoResponse
    /\ ui = <<>>
    /\ classIntent = ""
    /\ exCaller = ""
    /\ patternExtracted = ""
    /\ llmExtracted = Null
    /\ mainCity = ""
    /\ allCities = <<>>
    /\ allSearchResults = <<>>
    /\ searchIndex = 0
    /\ weatherDataList = <<>>
    /\ recordsOrigin = "none"
    /\ classification = NotClassified
    /\ calls = <<>>
    /\ ViewIdle

\* The edge from __start__ to callModel
StartTurn ==
    /\ pc = "Start"
    /\ pc' = "cm_load"
    /\ visited' = Append(visited, "callModel")
    /\ UNCHANGED <<userMessage, intent, extractedCity, response, ui, classification, calls>>
    /\ UNCHANGED resolverVars
    /\ UNCHANGED weatherVars
    /\ UNCHANGED viewVars

\* callModelNode, line 756: await loadChatModel(configuration.model), outside the try
CallModelLoad ==
    /\ pc = "cm_load"
    /\ \E loaded \in BOOLEAN :
          /\ pc' = IF loaded THEN "cm_classify" ELSE "Thrown"
          /\ calls' = Called("loadChatModel", "", loaded)
    /\ UNCHANGED <<visited, userMessage, intent, extractedCity, response, ui, classification>>
    /\ UNCHANGED resolverVars
    /\ UNCHANGED weatherVars
    /\ UNCHANGED viewVars

\* A classification node that returns the intent without the city.
returnIntentOnly(i, city) ==
    /\ intent' = i
    /\ extractedCity' = ""
    /\ pc' = "route"

\* The node returns {intent, extractedCity}.
returnClassification(i, city) ==
    /\ intent' = i
    /\ extractedCity' = city
    /\ pc' = "route"

\* extractCityFromMessage is entered: Strategy 1 runs, Strategy 2 is awaited.
enterResolver(caller, message) ==
    /\ exCaller' = caller
    /\ patternExtracted' = extractCityFromPattern(message)
    /\ llmExtracted' = Null
    /\ pc' = "ex_llm"

\* callModelNode, lines 773-817: the structured completion, its catch, and the
\* city of the classification or the call of extractCityFromMessage
CallModelClassify ==
    /\ pc = "cm_classify"
    /\ \E answer \in Classifications :
          /\ classification' = answer
          /\ calls' = Called("classify", userMessage, answer.ok)
          /\ IF answer.ok /\ Truthy(answer.city)
             THEN /\ returnClassification(answer.intent, answer.city)
                  /\ UNCHANGED resolverVars
             ELSE /\ classIntent' = IF answer.ok THEN answer.intent
                                    ELSE IF isWeatherQuery(userMessage) THEN "weather"
                                    ELSE "general"
                  /\ enterResolver("callModel", userMessage)
                  /\ UNCHANGED <<intent, extractedCity>>
    /\ UNCHANGED <<visited, userMessage, response, ui>>
    /\ UNCHANGED weatherVars
    /\ UNCHANGED viewVars

\* extractCityFromMessage returns city to the node that awaits it.
resolverReturns(city) ==
    /\ IF exCaller = "callModel"
       THEN /\ returnClassification(classIntent, city)
            /\ UNCHANGED mainCity
       ELSE /\ mainCity' = city
            /\ pc' = "w_expand"
            /\ UNCHANGED <<intent, extractedCity>>
    /\ classIntent' = ""
    /\ exCaller' = ""
    /\ patternExtracted' = ""
    /\ llmExtracted' = Null

\* An end of extractCityFromMessage that gives up when the pattern found nothing.
resolverFallbackNoSmart(hour, rnd) ==
    IF Truthy(patternExtracted) /\ patternExtracted # "New York"
    THEN patternExtracted
    ELSE ""

\* The end of extractCityFromMessage, lines 375-381
resolverFallback(hour, rnd) ==
    IF Truthy(patternExtracted) /\ patternExtracted # "New York"
    THEN patternExtracted
    ELSE getSmartFallbackCity(userMessage, hour, rnd)

\* extractCityFromMessage, lines 348-349: await extractCityWithLLM
ResolveWithLLM ==
    /\ pc = "ex_llm"
    /\ \E completion \in CityAnswers :
          LET city == extractCityWithLLM(completion)
          IN /\ llmExtracted' = city
             /\ pc' = IF Truthy(city) /\ city # "unknown" THEN "ex_validate" ELSE "ex_search"
             /\ calls' = Called("extractCityWithLLM", userMessage, completion.ok)
    /\ UNCHANGED <<visited, userMessage, intent, extractedCity, response, ui, classification>>
    /\ UNCHANGED <<classIntent, exCaller, patternExtracted>>
    /\ UNCHANGED weatherVars
    /\ UNCHANGED viewVars

\* extractCityFromMessage, lines 352-355: await validateCityWithSearch
ResolveValidate ==
    /\ pc = "ex_validate"
    /\ \E search \in SearchOutcomes :
          LET validated == validateCityWithSearch(llmExtracted, search)
          IN /\ calls' = Called("validateCityWithSearch", llmExtracted, search.ok)
             /\ IF Truthy(validated)
                THEN resolverReturns(validated)
                ELSE /\ pc' = "ex_search"
                     /\ UNCHANGED <<intent, extractedCity, mainCity>>
                     /\ UNCHANGED resolverVars
    /\ UNCHANGED <<visited, userMessage, response, ui, classification>>
    /\ UNCHANGED <<allCities, allSearchResults, searchIndex, weatherDataList, recordsOrigin>>
    /\ UNCHANGED viewVars

\* extractCityFromMessage, lines 363-381: await extractCityFromSearch, then the
\* pattern result or the smart fallback
ResolveSearch ==
    /\ pc = "ex_search"
    /\ \E search \in SearchOutcomes :
          LET searchExtracted == extractCityFromSearch(search)
          IN /\ calls' = Called("extractCityFromSearch", userMessage, search.ok)
             /\ IF Truthy(searchExtracted)
                THEN resolverReturns(searchExtracted)
                ELSE \E hour \in Hours, rnd \in RandomSamples :
                        resolverReturns(resolverFallback(hour, rnd))
    /\ UNCHANGED <<visited, userMessage, response, ui, classification>>
    /\ UNCHANGED <<allCities, allSearchResults, searchIndex, weatherDataList, recordsOrigin>>
    /\ UNCHANGED viewVars

\* The conditional edge after callModel
Route ==
    /\ pc = "route"
    /\ LET node == routeAfterClassification(intent)
       IN /\ pc' = IF node = "weather" THEN "w_city" ELSE "general"
          /\ visited' = Append(visited, node)
    /\ UNCHANGED <<userMessage, intent, extractedCity, response, ui, classification, calls>>
    /\ UNCHANGED resolverVars
    /\ UNCHANGED weatherVars
    /\ UNCHANGED viewVars

\* A weatherNode that extracts the city from the message whatever the state holds.
WeatherCityAlwaysResolves ==
    /\ pc = "w_city"
    /\ enterResolver("weather", userMessage)
    /\ UNCHANGED <<mainCity, classIntent>>
    /\ UNCHANGED <<visited, userMessage, intent, extractedCity, response, ui, classification, calls>>
    /\ UNCHANGED <<allCities, allSearchResults, searchIndex, weatherDataList, recordsOrigin>>
    /\ UNCHANGED viewVars

\* weatherNode, line 93: state.extractedCity || await extractCityFromMessage(...)
WeatherCity ==
    /\ pc = "w_city"
    /\ IF Truthy(extractedCity)
       THEN /\ mainCity' = extractedCity
            /\ pc' = "w_expand"
            /\ UNCHANGED resolverVars
       ELSE /\ enterResolver("weather", userMessage)
            /\ UNCHANGED <<mainCity, classIntent>>
    /\ UNCHANGED <<visited, userMessage, intent, extractedCity, response, ui, classification, calls>>
    /\ UNCHANGED <<allCities, allSearchResults, searchIndex, weatherDataList, recordsOrigin>>
    /\ UNCHANGED viewVars

\* weatherNode with the discovery run for every primary city and its result
\* preferred to the catalog row.
WeatherExpandAlwaysDiscovering ==
    /\ pc = "w_expand"
    /\ \E search \in SearchOutcomes :
          LET discoveredCities == discoverNearbyCities(mainCity, search)
          IN /\ allCities' = buildAllCities(mainCity,
                                IF Len(discoveredCities) > 0 THEN discoveredCities
                                ELSE nearbyCitiesOf(mainCity, discoveredCities))
             /\ calls' = Called("discoverNearbyCities", mainCity, search.ok)
    /\ pc' = "w_tavily"
    /\ UNCHANGED <<visited, userMessage, intent, extractedCity, response, ui, classification>>
    /\ UNCHANGED resolverVars
    /\ UNCHANGED <<mainCity, allSearchResults, searchIndex, weatherDataList, recordsOrigin>>
    /\ UNCHANGED viewVars

\* weatherNode, lines 175-191: the catalog row, or await discoverNearbyCities
WeatherExpand ==
    /\ pc = "w_expand"
    /\ \E search \in IF inCatalog(mainCity) THEN {Failed} ELSE SearchOutcomes :
          /\ allCities' = buildAllCities(mainCity,
                             nearbyCitiesOf(mainCity, discoverNearbyCities(mainCity, search)))
          /\ calls' = IF inCatalog(mainCity) THEN calls
                      ELSE Called("discoverNearbyCities", mainCity, search.ok)
    /\ pc' = "w_tavily"
    /\ UNCHANGED <<visited, userMessage, intent, extractedCity, response, ui, classification>>
    /\ UNCHANGED resolverVars
    /\ UNCHANGED <<mainCity, allSearchResults, searchIndex, weatherDataList, recordsOrigin>>
    /\ UNCHANGED viewVars

\* weatherNode, lines 195-202: new TavilySearchResults inside the outer try
WeatherTavily ==
    /\ pc = "w_tavily"
    /\ \E constructed \in BOOLEAN :
          pc' = IF constructed THEN "w_search" ELSE "w_catch"
    /\ allSearchResults' = <<>>
    /\ searchIndex' = 1
    /\ UNCHANGED <<visited, userMessage, intent, extractedCity, response, ui, classification, calls>>
    /\ UNCHANGED resolverVars
    /\ UNCHANGED <<mainCity, allCities, weatherDataList, recordsOrigin>>
    /\ UNCHANGED viewVars

\* A loop whose failed search is caught by the outer catch of weatherNode.
WeatherSearchAborting ==
    /\ pc = "w_search"
    /\ searchIndex <= Len(allCities)
    /\ \E search \in WeatherSearchOutcomes :
          /\ allSearchResults' =
                 IF search.ok
                 THEN Append(allSearchResults, [city |-> allCities[searchIndex], results |-> search.text])
                 ELSE allSearchResults
          /\ calls' = Called("weatherSearch", allCities[searchIndex], search.ok)
          /\ pc' = IF ~search.ok THEN "w_catch"
                   ELSE IF searchIndex = Len(allCities) THEN "w_parse" ELSE "w_search"
    /\ searchIndex' = searchIndex + 1
    /\ UNCHANGED <<visited, userMessage, intent, extractedCity, response, ui, classification>>
    /\ UNCHANGED resolverVars
    /\ UNCHANGED <<mainCity, allCities, weatherDataList, recordsOrigin>>
    /\ UNCHANGED viewVars

\* A loop that searches a second time for a city whose search failed.
WeatherSearchRetrying ==
    /\ pc = "w_search"
    /\ searchIndex <= Len(allCities)
    /\ \E search \in WeatherSearchOutcomes :
          LET retried == /\ Len(calls) > 0
                         /\ calls[Len(calls)].call = "weatherSearch"
                         /\ calls[Len(calls)].arg = allCities[searchIndex]
              again == ~search.ok /\ ~retried
          IN /\ allSearchResults' =
                    IF search.ok
                    THEN Append(allSearchResults, [city |-> allCities[searchIndex], results |-> search.text])
                    ELSE allSearchResults
             /\ calls' = Called("weatherSearch", allCities[searchIndex], search.ok)
             /\ searchIndex' = IF again THEN searchIndex ELSE searchIndex + 1
             /\ pc' = IF ~again /\ searchIndex = Len(allCities) THEN "w_parse" ELSE "w_search"
    /\ UNCHANGED <<visited, userMessage, intent, extractedCity, response, ui, classification>>
    /\ UNCHANGED resolverVars
    /\ UNCHANGED <<mainCity, allCities, weatherDataList, recordsOrigin>>
    /\ UNCHANGED viewVars

\* weatherNode, lines 204-219: one round of the loop over allCities
WeatherSearch ==
    /\ pc = "w_search"
    /\ searchIndex <= Len(allCities)
    /\ \E search \in WeatherSearchOutcomes :
          /\ allSearchResults' =
                 IF search.ok
                 THEN Append(allSearchResults, [city |-> allCities[searchIndex], results |-> search.text])
                 ELSE allSearchResults
          /\ calls' = Called("weatherSearch", allCities[searchIndex], search.ok)
    /\ searchIndex' = searchIndex + 1
    /\ pc' = IF searchIndex = Len(allCities) THEN "w_parse" ELSE "w_search"
    /\ UNCHANGED <<visited, userMessage, intent, extractedCity, response, ui, classification>>
    /\ UNCHANGED resolverVars
    /\ UNCHANGED <<mainCity, allCities, weatherDataList, recordsOrigin>>
    /\ UNCHANGED viewVars

\* A weather node that submits the batch a second time when the completion failed.
WeatherParseRepeating ==
    /\ pc = "w_parse"
    /\ \E completion \in WeatherCompletions(allCities), seed \in Seeds :
          /\ completion.ok => seed = 1
          /\ weatherDataList' = parseWeatherWithLLM(allSearchResults, allCities, completion, seed)
          /\ recordsOrigin' = IF completion.ok THEN "completion" ELSE "fallback"
          /\ calls' = Called("parseWeatherWithLLM", "", completion.ok)
          /\ pc' = IF ~completion.ok /\ calls[Len(calls)].call # "parseWeatherWithLLM"
                   THEN "w_parse" ELSE "w_respond"
    /\ UNCHANGED <<visited, userMessage, intent, extractedCity, response, ui, classification>>
    /\ UNCHANGED resolverVars
    /\ UNCHANGED <<mainCity, allCities, allSearchResults, searchIndex>>
    /\ UNCHANGED viewVars

\* weatherNode, lines 222-226: await parseWeatherWithLLM
WeatherParse ==
    /\ pc = "w_parse"
    /\ \E completion \in WeatherCompletions(allCities), seed \in Seeds :
          /\ completion.ok => seed = 1
          /\ weatherDataList' = parseWeatherWithLLM(allSearchResults, allCities, completion, seed)
          /\ recordsOrigin' = IF completion.ok THEN "completion" ELSE "fallback"
          /\ calls' = Called("parseWeatherWithLLM", "", completion.ok)
    /\ pc' = "w_respond"
    /\ UNCHANGED <<visited, userMessage, intent, extractedCity, response, ui, classification>>
    /\ UNCHANGED resolverVars
    /\ UNCHANGED <<mainCity, allCities, allSearchResults, searchIndex>>
    /\ UNCHANGED viewVars

realTimeContent(city) ==
    "Here's the current weather for " \o city \o " and nearby cities! The data was fetched in real-time. Use the carousel to browse through different locations."

cachedContent == "Here's the weather information. Note: Using cached data due to network issues."

\* An acknowledgement that does not echo the message.
generalContentNoEcho(message) ==
    "I understand. I'm currently set up to provide weather information with beautiful UI components. Try asking me about the weather in any city!"

generalContent(message) ==
    "I understand you said: \"" \o message \o "\". I'm currently set up to provide weather information with beautiful UI components. Try asking me about the weather in any city!"

weatherWidget(cities, searchCity) ==
    [name |-> "weather", cities |-> cities, searchCity |-> searchCity]

\* weatherNode, lines 228-245: the response, ui.push and the return
WeatherRespond ==
    /\ pc = "w_respond"
    /\ response' = realTimeContent(mainCity)
    /\ ui' = Append(ui, weatherWidget(weatherDataList, mainCity))
    /\ pc' = "End"
    /\ UNCHANGED <<visited, userMessage, intent, extractedCity, classification, calls>>
    /\ UNCHANGED resolverVars
    /\ UNCHANGED weatherVars
    /\ UNCHANGED viewVars

\* weatherNode, lines 247-268: the outer catch
WeatherCatch ==
    /\ pc = "w_catch"
    /\ \E seed \in Seeds :
          /\ weatherDataList' = fallbackList(allCities, seed)
          /\ ui' = Append(ui, weatherWidget(fallbackList(allCities, seed), mainCity))
    /\ recordsOrigin' = "fallback"
    /\ response' = cachedContent
    /\ pc' = "End"
    /\ UNCHANGED <<visited, userMessage, intent, extractedCity, classification, calls>>
    /\ UNCHANGED resolverVars
    /\ UNCHANGED <<mainCity, allCities, allSearchResults, searchIndex>>
    /\ UNCHANGED viewVars

\* generalNode
GeneralNode ==
    /\ pc = "general"
    /\ response' = generalContent(userMessage)
    /\ pc' = "End"
    /\ UNCHANGED <<visited, userMessage, intent, extractedCity, ui, classification, calls>>
    /\ UNCHANGED resolverVars
    /\ UNCHANGED weatherVars
    /\ UNCHANGED viewVars

Next ==
    \/ StartTurn
    \/ CallModelLoad
    \/ CallModelClassify
    \/ ResolveWithLLM
    \/ ResolveValidate
    \/ ResolveSearch
    \/ Route
    \/ WeatherCity
    \/ WeatherExpand
    \/ WeatherTavily
    \/ WeatherSearch
    \/ WeatherParse
    \/ WeatherRespond
    \/ WeatherCatch
    \/ GeneralNode

Spec == Init /\ [][Next]_vars

\* Every external call returns or fails, so a turn that can take a step takes one.
FairSpec == Spec /\ WF_vars(Next)

(***************************************************************************)
(* react-agent/graph.ts: its weather node and its graph.                   *)
(***************************************************************************)
reactNearbyCitiesMap ==
    (  "chennai" :> <<"Mumbai", "Bangalore", "Hyderabad", "Kolkata", "Delhi">>
    @@ "mumbai" :> <<"Pune", "Bangalore", "Chennai", "Ahmedabad", "Delhi">>
    @@ "delhi" :> <<"Noida", "Gurgaon", "Jaipur", "Chandigarh", "Lucknow">>
    @@ "bangalore" :> <<"Chennai", "Mysore", "Hyderabad", "Mumbai", "Pune">>
    @@ "kolkata" :> <<"Chennai", "Bhubaneswar", "Patna", "Guwahati", "Delhi">>
    @@ "new york" :> <<"Boston", "Philadelphia", "Washington DC", "Chicago", "Los Angeles">>
    @@ "london" :> <<"Paris", "Manchester", "Birmingham", "Dublin", "Amsterdam">>
    @@ "default" :> <<"New York", "London", "Tokyo", "Sydney", "Dubai">> )

\* ([a-zA-Z\s]+)
ReactCityGroup == Cap(Rep(AlphaSpace, 1, Unbounded))

reactPatterns ==
    << SeqOf(<<Lit("weather"), Ws1, Words(<<"in", "for", "at">>), Ws1, ReactCityGroup>>),
       SeqOf(<<Words(<<"in", "for", "at">>), Ws1, ReactCityGroup, Ws1, Lit("weather")>>),
       SeqOf(<<ReactCityGroup, Ws1, Lit("weather")>>),
       SeqOf(<<Lit("weather"), Ws1, ReactCityGroup>>) >>

RECURSIVE reactPatternCity(_, _)
reactPatternCity(message, k) ==
    IF k > Len(reactPatterns) THEN "Chennai"
    ELSE LET m == Exec(reactPatterns[k], message)
         IN IF m.found /\ Len(m.cap) > 0 THEN trim(m.cap)
            ELSE reactPatternCity(message, k + 1)

\* react-agent extractCityFromMessage
reactExtractCityFromMessage(message) == reactPatternCity(message, 1)

\* react-agent allCities
reactAllCities(city) ==
    LET mainCityLower == toLowerCase(city)
        nearbyCities == IF mainCityLower \in DOMAIN reactNearbyCitiesMap
                        THEN reactNearbyCitiesMap[mainCityLower]
                        ELSE reactNearbyCitiesMap["default"]
    IN <<city>> \o slice0(nearbyCities, 4)

reactConditions == <<"Sunny", "Partly Cloudy", "Cloudy", "Rainy">>

reactIcons == <<"sunny", "cloudy", "rainy">>

\* react-agent createFallbackWeatherData; its five draws are those from seed on.
reactCreateFallbackWeatherData(city, id, seed) ==
    [id |-> id,
     city |-> city,
     country |-> detectCountry(city),
     temp |-> floorRandom(Draw(seed, 1), 25) + 70,
     condition |-> reactConditions[floorRandom(Draw(seed, 2), Len(reactConditions)) + 1],
     humidity |-> floorRandom(Draw(seed, 3), 40) + 40,
     windSpeed |-> floorRandom(Draw(seed, 4), 15) + 5,
     icon |-> reactIcons[floorRandom(Draw(seed, 5), Len(reactIcons)) + 1]]

reactFallbackList(cities, seed) ==
    [k \in 1..Len(cities) |-> reactCreateFallbackWeatherData(cities[k], k, seed + 5 * (k - 1))]

\* react-agent parseWeatherWithLLM
reactParseWeatherWithLLM(searchResults, cities, completion, seed) ==
    IF completion.ok THEN convertResponse(completion.weatherData)
    ELSE reactFallbackList(cities, seed)

reactWeatherKeywords ==
    <<"weather", "temperature", "forecast", "climate", "rain", "sunny", "cloudy">>

isWeatherRequest(message) ==
    \E k \in 1..Len(reactWeatherKeywords) :
        includes(toLowerCase(message), reactWeatherKeywords[k])

\* routeModelOutput: toolCalls is the length of tool_calls of the last message
routeModelOutput(toolCalls) == IF toolCalls > 0 THEN "tools" ELSE "__end__"

ReactUtterances ==
    {"weather in Tokyo", "What's the weather in New York?", "London weather", "is it sunny",
     "Hello there"}

\* What a tool of the ToolNode returns as the content of its message
ToolResults == {"no results", "sunny in Rome"}

\* The number of times the chat model may ask for tools in a turn
MaxToolRounds == 2

ReactInit ==
    /\ pc = "Start"
    /\ visited = <<>>
    /\ userMessage \in ReactUtterances
    /\ intent = ""
    /\ extractedCity = ""
    /\ response = NoResponse
    /\ ui = <<>>
    /\ classIntent = ""
    /\ exCaller = ""
    /\ patternExtracted = ""
    /\ llmExtracted = Null
    /\ mainCity = ""
    /\ allCities = <<>>
    /\ allSearchResults = <<>>
    /\ searchIndex = 0
    /\ weatherDataList = <<>>
    /\ recordsOrigin = "none"
    /\ classification = NotClassified
    /\ calls = <<>>
    /\ ViewIdle

gone ==
    <<intent, extractedCity, classIntent, exCaller, patternExtracted, llmExtracted,
      classification, calls>>

\* The edge from __start__ to callModel
ReactStart ==
    /\ pc = "Start"
    /\ pc' = "r_callModel"
    /\ visited' = Append(visited, "callModel")
    /\ UNCHANGED <<userMessage, response, ui>>
    /\ UNCHANGED gone
    /\ UNCHANGED weatherVars
    /\ UNCHANGED viewVars

\* callModel, lines 275-293, and weatherNode up to its first await, lines 52-98
ReactCallModel ==
    /\ pc = "r_callModel"
    /\ IF isWeatherRequest(userMessage)
       THEN /\ mainCity' = reactExtractCityFromMessage(userMessage)
            /\ allCities' = reactAllCities(reactExtractCityFromMessage(userMessage))
            /\ \E constructed \in BOOLEAN :
                  pc' = IF constructed THEN "r_search" ELSE "r_catch"
            /\ allSearchResults' = <<>>
            /\ searchIndex' = 1
       ELSE /\ pc' = "r_model"
            /\ UNCHANGED <<mainCity, allCities, allSearchResults, searchIndex>>
    /\ UNCHANGED <<visited, userMessage, response, ui, weatherDataList, recordsOrigin>>
    /\ UNCHANGED gone
    /\ UNCHANGED viewVars

\* weatherNode, lines 100-115: one round of the loop over allCities
ReactSearch ==
    /\ pc = "r_search"
    /\ searchIndex <= Len(allCities)
    /\ \E search \in WeatherSearchOutcomes :
          allSearchResults' =
              IF search.ok
              THEN Append(allSearchResults, [city |-> allCities[searchIndex], results |-> search.text])
              ELSE allSearchResults
    /\ searchIndex' = searchIndex + 1
    /\ pc' = IF searchIndex = Len(allCities) THEN "r_parse" ELSE "r_search"
    /\ UNCHANGED <<visited, userMessage, response, ui>>
    /\ UNCHANGED gone
    /\ UNCHANGED <<mainCity, allCities, weatherDataList, recordsOrigin>>
    /\ UNCHANGED viewVars

\* weatherNode, lines 118-122: await parseWeatherWithLLM
ReactParse ==
    /\ pc = "r_parse"
    /\ \E completion \in WeatherCompletions(allCities), seed \in Seeds :
          /\ completion.ok => seed = 1
          /\ weatherDataList' = reactParseWeatherWithLLM(allSearchResults, allCities, completion, seed)
          /\ recordsOrigin' = IF completion.ok THEN "completion" ELSE "fallback"
    /\ pc' = "r_respond"
    /\ UNCHANGED <<visited, userMessage, response, ui>>
    /\ UNCHANGED gone
    /\ UNCHANGED <<mainCity, allCities, allSearchResults, searchIndex>>
    /\ UNCHANGED viewVars

\* weatherNode, lines 124-138, and routeModelOutput on the message it returns
ReactRespond ==
    /\ pc = "r_respond"
    /\ response' = realTimeContent(mainCity)
    /\ ui' = Append(ui, weatherWidget(weatherDataList, mainCity))
    /\ pc' = IF routeModelOutput(0) = "tools" THEN "r_tools" ELSE "End"
    /\ UNCHANGED <<visited, userMessage>>
    /\ UNCHANGED gone
    /\ UNCHANGED weatherVars
    /\ UNCHANGED viewVars

\* weatherNode, lines 140-160: the outer catch
ReactCatch ==
    /\ pc = "r_catch"
    /\ \E seed \in Seeds :
          /\ weatherDataList' = reactFallbackList(allCities, seed)
          /\ ui' = Append(ui, weatherWidget(reactFallbackList(allCities, seed), mainCity))
    /\ recordsOrigin' = "fallback"
    /\ response' = cachedContent
    /\ pc' = IF routeModelOutput(0) = "tools" THEN "r_tools" ELSE "End"
    /\ UNCHANGED <<visited, userMessage>>
    /\ UNCHANGED gone
    /\ UNCHANGED <<mainCity, allCities, allSearchResults, searchIndex>>
    /\ UNCHANGED viewVars

\* callModel, lines 296-310: the chat model is loaded and invoked outside any try,
\* then routeModelOutput
ReactModel ==
    /\ pc = "r_model"
    /\ \E answered \in BOOLEAN, toolCalls \in 0..1 :
          /\ ~answered => toolCalls = 0
          /\ toolCalls > 0 => Len(visited) < 2 * MaxToolRounds
          /\ pc' = IF ~answered THEN "Thrown"
                   ELSE IF routeModelOutput(toolCalls) = "tools" THEN "r_tools" ELSE "End"
          /\ response' = IF answered /\ toolCalls = 0 THEN "model answer" ELSE response
    /\ UNCHANGED <<visited, userMessage, ui>>
    /\ UNCHANGED gone
    /\ UNCHANGED weatherVars
    /\ UNCHANGED viewVars

\* The tools node and the edge back to callModel: the last message is now the
\* message of the tool.
ReactTools ==
    /\ pc = "r_tools"
    /\ \E result \in ToolResults : userMessage' = result
    /\ visited' = visited \o <<"tools", "callModel">>
    /\ pc' = "r_callModel"
    /\ UNCHANGED <<response, ui>>
    /\ UNCHANGED gone
    /\ UNCHANGED weatherVars
    /\ UNCHANGED viewVars

ReactNext ==
    \/ ReactStart
    \/ ReactCallModel
    \/ ReactSearch
    \/ ReactParse
    \/ ReactRespond
    \/ ReactCatch
    \/ ReactModel
    \/ ReactTools

ReactSpec == ReactInit /\ [][ReactNext]_vars

(***************************************************************************)
(* Properties.                                                             *)
(***************************************************************************)
(***************************************************************************)
(* The components of the web client.  While one of them is exercised the   *)
(* agent is idle, and the other components keep their initial state.       *)
(***************************************************************************)
agentVars ==
    <<pc, visited, userMessage, intent, extractedCity, response, ui, classIntent, exCaller,
      patternExtracted, llmExtracted, mainCity, allCities, allSearchResults, searchIndex,
      weatherDataList, recordsOrigin, classification, calls>>

AgentIdle ==
    /\ pc = "Idle"
    /\ visited = <<>>
    /\ userMessage = ""
    /\ intent = ""
    /\ extractedCity = ""
    /\ response = NoResponse
    /\ ui = <<>>
    /\ classIntent = ""
    /\ exCaller = ""
    /\ patternExtracted = ""
    /\ llmExtracted = Null
    /\ mainCity = ""
    /\ allCities = <<>>
    /\ allSearchResults = <<>>
    /\ searchIndex = 0
    /\ weatherDataList = <<>>
    /\ recordsOrigin = "none"
    /\ classification = NotClassified
    /\ calls = <<>>

(***************************************************************************)
(* YouTubeCarousel of news-info/ui.tsx.                                    *)
(***************************************************************************)
MaxVideos == 3

VideoIds == {"v1", "v2", "v3"}

\* The values of the videos prop: lists of at most MaxVideos videos
VideoLists == UNION {[1..n -> VideoIds] : n \in 0..MaxVideos}

\* setCurrentIndex((prev) => (prev + 1) % videos.length)
nextIndex(prev, length) == (prev + 1) % length

\* setCurrentIndex((prev) => (prev - 1 + videos.length) % videos.length)
prevIndex(prev, length) == (prev - 1 + length) % length

\* const currentVideo = videos[currentIndex] is defined, so the render, which
\* reads currentVideo.videoId, does not throw and the buttons exist.
CarouselRendered == currentIndex < Len(videos)

otherThanCarousel ==
    <<carouselCities, searchTerm, clock, valuesUi, processedRef, canvasContent, canvasVisible>>

\* The carousel is mounted with a non-empty list of videos.
CarouselInit ==
    /\ AgentIdle
    /\ videos \in VideoLists \ {<<>>}
    /\ currentIndex = 0
    /\ carouselCities = <<>>
    /\ searchTerm = ""
    /\ clock = 0
    /\ valuesUi = <<>>
    /\ processedRef = <<>>
    /\ canvasContent = NoCanvasContent
    /\ canvasVisible = FALSE

\* onClick of the next button
NextSlide ==
    /\ CarouselRendered
    /\ currentIndex' = nextIndex(currentIndex, Len(videos))
    /\ UNCHANGED videos
    /\ UNCHANGED otherThanCarousel
    /\ UNCHANGED agentVars

\* onClick of the previous button
PrevSlide ==
    /\ CarouselRendered
    /\ currentIndex' = prevIndex(currentIndex, Len(videos))
    /\ UNCHANGED videos
    /\ UNCHANGED otherThanCarousel
    /\ UNCHANGED agentVars

\* onClick of a thumbnail or a dot: goToSlide(index) for a rendered index
GoToSlide ==
    /\ CarouselRendered
    /\ \E index \in 0..(Len(videos) - 1) : currentIndex' = index
    /\ UNCHANGED videos
    /\ UNCHANGED otherThanCarousel
    /\ UNCHANGED agentVars

\* The parent renders the carousel with another videos prop; the state of
\* useState(0) is kept.
ChangeVideos ==
    /\ CarouselRendered
    /\ \E next \in VideoLists : next # videos /\ videos' = next
    /\ UNCHANGED currentIndex
    /\ UNCHANGED otherThanCarousel
    /\ UNCHANGED agentVars

CarouselNext ==
    \/ NextSlide
    \/ PrevSlide
    \/ GoToSlide
    \/ ChangeVideos

CarouselSpec == CarouselInit /\ [][CarouselNext]_vars

(***************************************************************************)
(* WeatherCarousel of weather-info/ui.tsx: the cities state and the search *)
(* form.  Time is counted in seconds.                                      *)
(***************************************************************************)
\* 86400000 ms, the age of the default data
OneDay == 86400

\* How far Date.now() advances while the component is exercised
MaxClock == 2

defaultCities ==
    << [id |-> 1, city |-> "New York", country |-> "USA", temp |-> 72,
        condition |-> "Partly Cloudy", humidity |-> 65, windSpeed |-> 12, icon |-> "cloudy",
        timestamp |-> 0] >>

\* A city of the cities prop, which carries no timestamp
propCity(id, name) ==
    [id |-> id, city |-> name, country |-> "Unknown", temp |-> 70, condition |-> "Sunny",
     humidity |-> 50, windSpeed |-> 10, icon |-> "sunny"]

\* The values of the cities prop: absent, or a list without two cities of one name
PropCityLists == {<<>>, <<propCity(1, "Paris"), propCity(2, "Rome")>>}

\* The initializer of useState<WeatherData[]>: the prop cities, else the
\* default, each without a timestamp given one staggered by its position
initialCities(propCities, dateNow) ==
    IF Len(propCities) > 0
    THEN [k \in 1..Len(propCities) |->
             [id |-> propCities[k].id, city |-> propCities[k].city,
              country |-> propCities[k].country, temp |-> propCities[k].temp,
              condition |-> propCities[k].condition, humidity |-> propCities[k].humidity,
              windSpeed |-> propCities[k].windSpeed, icon |-> propCities[k].icon,
              timestamp |-> dateNow - (k - 1)]]
    ELSE defaultCities

\* What the user types into the search box, or the searchCity prop
SearchTerms == {"", "  ", "Paris", "paris", " PARIS ", "Oslo"}

searchConditions == <<"Sunny", "Cloudy", "Rainy">>

searchIcons == <<"sunny", "cloudy", "rainy">>

\* cities.findIndex(city => city.city.toLowerCase() === searchTerm.trim().toLowerCase()),
\* counted from 1, 0 for -1
existingCityIndex(list, term) ==
    LET hits == {k \in 1..Len(list) : toLowerCase(list[k].city) = toLowerCase(trim(term))}
    IN IF hits = {} THEN 0 ELSE CHOOSE k \in hits : \A j \in hits : k <= j

\* A findIndex that compares the names as they are written.
exactCityIndex(list, term) ==
    LET hits == {k \in 1..Len(list) : list[k].city = trim(term)}
    IN IF hits = {} THEN 0 ELSE CHOOSE k \in hits : \A j \in hits : k <= j

\* The newCity of handleSearch; seed stands for its calls of Math.random()
newCity(list, term, dateNow, seed) ==
    [id |-> Len(list) + 1,
     city |-> trim(term),
     country |-> "USA",
     temp |-> floorRandom(Draw(seed, 1), 30) + 60,
     condition |-> searchConditions[floorRandom(Draw(seed, 2), 3) + 1],
     humidity |-> floorRandom(Draw(seed, 3), 40) + 40,
     windSpeed |-> floorRandom(Draw(seed, 4), 15) + 5,
     icon |-> searchIcons[floorRandom(Draw(seed, 5), 3) + 1],
     timestamp |-> dateNow]

otherThanWeatherCarousel == <<videos, valuesUi, processedRef, canvasContent, canvasVisible>>

WeatherCarouselInit ==
    /\ AgentIdle
    /\ clock = OneDay
    /\ \E propCities \in PropCityLists : carouselCities = initialCities(propCities, clock)
    /\ searchTerm \in {"", "Paris"}
    /\ currentIndex = 0
    /\ videos = <<>>
    /\ valuesUi = <<>>
    /\ processedRef = <<>>
    /\ canvasContent = NoCanvasContent
    /\ canvasVisible = FALSE

\* Time passes.
Tick ==
    /\ clock < OneDay + MaxClock
    /\ clock' = clock + 1
    /\ UNCHANGED <<carouselCities, searchTerm, currentIndex>>
    /\ UNCHANGED otherThanWeatherCarousel
    /\ UNCHANGED agentVars

\* onChange of the search box: setSearchTerm(e.target.value)
TypeSearchTerm ==
    /\ \E value \in SearchTerms : searchTerm' = value
    /\ UNCHANGED <<carouselCities, currentIndex, clock>>
    /\ UNCHANGED otherThanWeatherCarousel
    /\ UNCHANGED agentVars

\* A handleSearch whose lookup is case-sensitive.
handleSearchExact(seed) ==
    IF trim(searchTerm) # ""
    THEN /\ carouselCities' =
               IF exactCityIndex(carouselCities, searchTerm) # 0
               THEN [carouselCities EXCEPT ![exactCityIndex(carouselCities, searchTerm)].timestamp = clock]
               ELSE <<newCity(carouselCities, searchTerm, clock, seed)>> \o carouselCities
         /\ searchTerm' = ""
         /\ currentIndex' = 0
    ELSE UNCHANGED <<carouselCities, searchTerm, currentIndex>>

\* handleSearch, lines 133-169
handleSearch(seed) ==
    IF trim(searchTerm) # ""
    THEN /\ carouselCities' =
               IF existingCityIndex(carouselCities, searchTerm) # 0
               THEN [carouselCities EXCEPT ![existingCityIndex(carouselCities, searchTerm)].timestamp = clock]
               ELSE <<newCity(carouselCities, searchTerm, clock, seed)>> \o carouselCities
         /\ searchTerm' = ""
         /\ currentIndex' = 0
    ELSE UNCHANGED <<carouselCities, searchTerm, currentIndex>>

\* onSubmit of the search form
SubmitSearch ==
    /\ \E seed \in Seeds : handleSearch(seed)
    /\ UNCHANGED clock
    /\ UNCHANGED otherThanWeatherCarousel
    /\ UNCHANGED agentVars

WeatherCarouselNext ==
    \/ Tick
    \/ TypeSearchTerm
    \/ SubmitSearch

WeatherCarouselSpec == WeatherCarouselInit /\ [][WeatherCarouselNext]_vars

(***************************************************************************)
(* The canvas: CanvasProvider, the Canvas panel and the CustomComponent of *)
(* every message of the thread.                                            *)
(***************************************************************************)
\* The messages of the thread, in the order they are rendered
MessageIds == <<"m1", "m2">>

UiIds == {"u1", "u2", "u3"}

\* values.ui?.filter((ui) => ui.metadata?.message_id === message.id), as ids
RECURSIVE customComponents(_, _)
customComponents(uis, messageId) ==
    IF uis = <<>> THEN <<>>
    ELSE (IF uis[1].message_id = messageId THEN <<uis[1].id>> ELSE <<>>)
         \o customComponents(Tail(uis), messageId)

\* customComponents.map(c => c.id).join(',')
componentKey(uis, messageId) == join(customComponents(uis, messageId), ",")

\* hasContent: canvasContent !== null
hasContent == canvasContent # NoCanvasContent

\* The effect of a CustomComponent without the test of processedRef.
customEffectUnguarded(view, messageId) ==
    LET components == customComponents(view.ui, messageId)
        key == componentKey(view.ui, messageId)
    IN IF Len(components) > 0 /\ key # ""
       THEN [ui |-> view.ui,
             processed |-> [view.processed EXCEPT ![messageId] = @ \cup {key}],
             content |-> [message |-> messageId, components |-> components],
             visible |-> TRUE]
       ELSE view

\* The effect of the CustomComponent of one message, lines 42-70
customEffect(view, messageId) ==
    LET components == customComponents(view.ui, messageId)
        key == componentKey(view.ui, messageId)
    IN IF Len(components) > 0 /\ key # "" /\ key \notin view.processed[messageId]
       THEN [ui |-> view.ui,
             processed |-> [view.processed EXCEPT ![messageId] = @ \cup {key}],
             content |-> [message |-> messageId, components |-> components],
             visible |-> TRUE]
       ELSE view

\* The effects of the components of the first k messages, run in render order
RECURSIVE runEffects(_, _)
runEffects(view, k) ==
    IF k = 0 THEN view ELSE customEffect(runEffects(view, k - 1), MessageIds[k])

\* The commit of a render in which values.ui is uis: every effect runs again,
\* since customComponents and thread are new objects.
commit(uis) ==
    LET view == runEffects([ui |-> uis, processed |-> processedRef,
                            content |-> canvasContent, visible |-> canvasVisible],
                           Len(MessageIds))
    IN /\ valuesUi' = uis
       /\ processedRef' = view.processed
       /\ canvasContent' = view.content
       /\ canvasVisible' = view.visible

otherThanCanvas == <<videos, currentIndex, carouselCities, searchTerm, clock>>

CanvasInit ==
    /\ AgentIdle
    /\ valuesUi = <<>>
    /\ processedRef = [m \in {MessageIds[k] : k \in 1..Len(MessageIds)} |-> {}]
    /\ canvasContent = NoCanvasContent
    /\ canvasVisible = FALSE
    /\ videos = <<>>
    /\ currentIndex = 0
    /\ carouselCities = <<>>
    /\ searchTerm = ""
    /\ clock = 0

\* The stream delivers one more UI component of a message.
ReceiveUi ==
    /\ \E id \in UiIds, k \in 1..Len(MessageIds) :
          /\ \A j \in 1..Len(valuesUi) : valuesUi[j].id # id
          /\ commit(Append(valuesUi, [id |-> id, message_id |-> MessageIds[k]]))
    /\ UNCHANGED otherThanCanvas
    /\ UNCHANGED agentVars

\* The thread renders again with the same UI components.
Rerender ==
    /\ commit(valuesUi)
    /\ UNCHANGED otherThanCanvas
    /\ UNCHANGED agentVars

\* onClick of the close button of the panel: setCanvasVisible(false)
CloseCanvas ==
    /\ canvasVisible
    /\ canvasVisible' = FALSE
    /\ UNCHANGED <<valuesUi, processedRef, canvasContent>>
    /\ UNCHANGED otherThanCanvas
    /\ UNCHANGED agentVars

\* onClick of the toggle button shown while the panel is hidden
OpenCanvas ==
    /\ ~canvasVisible
    /\ canvasVisible' = TRUE
    /\ UNCHANGED <<valuesUi, processedRef, canvasContent>>
    /\ UNCHANGED otherThanCanvas
    /\ UNCHANGED agentVars

CanvasNext ==
    \/ ReceiveUi
    \/ Rerender
    \/ CloseCanvas
    \/ OpenCanvas

CanvasSpec == CanvasInit /\ [][CanvasNext]_vars

\* The records of the widgets handed to the renderer
Delivered == {ui[k].cities : k \in 1..Len(ui)}

sameCity(a, b) == toLowerCase(a) = toLowerCase(b)

\* The weather node has built its LocationSet.
Expanded ==
    \/ pc \in {"w_tavily", "w_search", "w_parse", "w_respond", "w_catch"}
    \/ pc = "End" /\ Len(ui) > 0

\* C1: in every weather turn the list of records handed to the renderer has
\* exactly as many records as the LocationSet has locations.
C1_RecordPerLocation == \A records \in Delivered : Len(records) = Len(allCities)

\* C2: a turn never ends in an exception that reaches the caller, whichever
\* external capability fails.
C2_NoUnhandledThrow == pc # "Thrown"

\* C3: the delivered records are index-aligned with the LocationSet: the
\* record at position i is the record of location i, and every location has
\* its own record.
C3_IndexAligned ==
    \A records \in Delivered :
        /\ \A i \in 1..Len(allCities) :
              \E j \in 1..Len(records) : sameCity(records[j].city, allCities[i])
        /\ \A i \in (1..Len(allCities)) \cap (1..Len(records)) :
              sameCity(records[i].city, allCities[i])

\* C4: a turn that delivers synthetic fallback records says in its response
\* that cached data is shown and never that the data was fetched in real time.
C4_DegradedNotice ==
    (pc = "End" /\ recordsOrigin = "fallback")
        => (includes(response, "cached data") /\ ~includes(response, "real-time"))

\* C5: the LocationSet never holds the same location twice, compared
\* case-insensitively.
C5_NoDuplicateLocation ==
    \A i, j \in 1..Len(allCities) : i # j => ~sameCity(allCities[i], allCities[j])

\* C6: the LocationSet the weather node builds has between 1 and 5 entries and
\* its first entry is the primary location.
C6_BoundedPrimaryFirst ==
    Expanded => (Len(allCities) >= 1 /\ Len(allCities) <= 5 /\ allCities[1] = mainCity)

\* A LocationSet of five entries for a primary location outside the catalog
C6_Witness == pc = "w_tavily" /\ ~inCatalog(mainCity) /\ Len(allCities) = 5

\* C7: every synthetic fallback record has temperature in [60,90], humidity in
\* [40,80] and windSpeed in [5,20].
C7_FallbackRanges ==
    recordsOrigin = "fallback" =>
        \A k \in 1..Len(weatherDataList) :
            /\ weatherDataList[k].temp \in 60..90
            /\ weatherDataList[k].humidity \in 40..80
            /\ weatherDataList[k].windSpeed \in 5..20

iconOf(condition) ==
    IF condition \in {"Stormy", "Rainy"} THEN "rainy"
    ELSE IF condition \in {"Cloudy", "Partly Cloudy"} THEN "cloudy"
    ELSE "sunny"

\* C8: in every record the pipeline produces the icon is the one the
\* precedence table gives for the condition.
C8_IconConsistent ==
    \A k \in 1..Len(weatherDataList) :
        weatherDataList[k].condition \in {"Stormy", "Rainy", "Cloudy", "Partly Cloudy", "Sunny"}
            => weatherDataList[k].icon = iconOf(weatherDataList[k].condition)

\* The state of the orchestrator the turn is in
Phase ==
    CASE pc = "Start" -> "Start"
      [] pc \in {"cm_load", "cm_classify", "route"} -> "Classifying"
      [] pc \in {"ex_llm", "ex_validate", "ex_search"} ->
            IF exCaller = "callModel" THEN "Classifying" ELSE "WeatherBranch"
      [] pc \in {"w_city", "w_expand", "w_tavily", "w_search", "w_parse", "w_respond", "w_catch"} ->
            "WeatherBranch"
      [] pc = "general" -> "GeneralBranch"
      [] pc = "End" -> "Done"
      [] OTHER -> "Failed"

PhaseEdges ==
    { <<"Start", "Classifying">>, <<"Classifying", "WeatherBranch">>,
      <<"Classifying", "GeneralBranch">>, <<"WeatherBranch", "Done">>,
      <<"GeneralBranch", "Done">> }

\* C9: every turn goes Start, Classifying, one of WeatherBranch and
\* GeneralBranch, Done; it reaches Done, and no node runs twice.
C9_TurnOrder ==
    /\ [][Phase' = Phase \/ <<Phase, Phase'>> \in PhaseEdges]_vars
    /\ [](\A i, j \in 1..Len(visited) : i # j => visited[i] # visited[j])
    /\ <>(pc = "End")

\* C10: the weather branch is taken exactly when the classified intent is
\* weather; every other intent, the empty default too, goes to the general
\* branch.
C10_WeatherIffIntent ==
    /\ Len(visited) >= 2 => (visited[2] = "weather" <=> intent = "weather")
    /\ Len(visited) >= 2 => visited[2] \in {"weather", "general"}
    /\ Phase = "WeatherBranch" => intent = "weather"
    /\ Phase = "GeneralBranch" => intent # "weather"
    /\ \A i \in Intents \cup {""} :
          routeAfterClassification(i) = (IF i = "weather" THEN "weather" ELSE "general")

\* A turn classified as news that is in the general branch
C10_Witness == pc = "general" /\ intent = "news"

\* The positions of the log that hold a call of the capability
CallsOf(call) == {k \in 1..Len(calls) : calls[k].call = call}

ResolverPcs == {"ex_llm", "ex_validate", "ex_search"}

ResolverCalls == {"extractCityWithLLM", "validateCityWithSearch", "extractCityFromSearch"}

\* The structured completion of the classification was asked for and failed.
ClassificationFailed == CallsOf("classify") # {} /\ ~classification.ok

TenKeywords ==
    {"weather", "temperature", "forecast", "climate", "sunny", "rainy", "cloudy", "cold", "hot",
     "degrees"}

\* C11: when the classification completion fails, the intent the node returns
\* is weather if the lower-cased utterance contains one of the ten keywords and
\* general otherwise.
C11_KeywordFallback ==
    (ClassificationFailed /\ pc \notin ResolverPcs) =>
        intent = (IF \E kw \in TenKeywords : includes(toLowerCase(userMessage), kw)
                  THEN "weather" ELSE "general")

\* A failed classification of an utterance whose only keyword is temperature
C11_Witness ==
    /\ ClassificationFailed
    /\ pc = "route"
    /\ intent = "weather"
    /\ userMessage = "temperature in DC"

\* The stage of the cascade the resolver is at; 4 once it has returned
ResolverStage ==
    CASE pc = "ex_llm" -> 1
      [] pc = "ex_validate" -> 2
      [] pc = "ex_search" -> 3
      [] OTHER -> 4

\* C12: extractCityFromMessage always returns to its caller, with a non-empty
\* name, whatever the completion and the searches do: every call that returns
\* or fails moves it to a later stage of the cascade, and it leaves the last
\* stage only by returning a name to the node that awaits it.
C12_ResolverTerminates ==
    /\ [][(pc \in ResolverPcs /\ pc' \notin ResolverPcs) =>
            /\ pc' \in {"route", "w_expand"}
            /\ (IF pc' = "route" THEN extractedCity' ELSE mainCity') \notin {"", Null}]_vars
    /\ [][(pc \in ResolverPcs) => (ResolverStage' > ResolverStage)]_vars

\* The resolver has returned a name although its completion and its search failed.
C12_Witness ==
    /\ pc = "route"
    /\ extractedCity # ""
    /\ \E k \in CallsOf("extractCityWithLLM") : ~calls[k].ok
    /\ \E k \in CallsOf("extractCityFromSearch") : ~calls[k].ok

\* A word that starts with an upper-case letter followed by lower-case letters
TitleCasedWord(word) ==
    /\ Len(word) >= 1
    /\ Chr(word, 1) \in UpperSet
    /\ \A k \in 2..Len(word) : Chr(word, k) \in LowerSet

TitleCased(name) ==
    LET words == split(name, " ")
    IN \A k \in 1..Len(words) : TitleCasedWord(words[k])

\* C13: the name extractCityFromMessage returns has length at least 2 and
\* below 50 and is title-cased per word, whichever stage produced it.
C13_NameShape ==
    (pc = "route" /\ CallsOf("extractCityWithLLM") # {}) =>
        /\ Len(extractedCity) >= 2
        /\ Len(extractedCity) < 50
        /\ TitleCased(extractedCity)

\* The weather node has its primary location.
MainCitySet == pc = "w_expand" \/ Expanded

\* C14: when the classifier supplies a city, that city is the primary location
\* and the resolver is not run; when it supplies none, the resolver runs, once,
\* and the primary location is the name it returned to the classification node.
C14_ClassifierCityFirst ==
    CallsOf("classify") # {} =>
        IF classification.ok /\ Truthy(classification.city)
        THEN /\ pc \notin ResolverPcs
             /\ \A c \in ResolverCalls : CallsOf(c) = {}
             /\ extractedCity = classification.city
             /\ MainCitySet => mainCity = classification.city
        ELSE /\ pc \in ResolverPcs \/ CallsOf("extractCityWithLLM") # {}
             /\ Cardinality(CallsOf("extractCityWithLLM")) <= 1
             /\ MainCitySet => (exCaller = "" /\ mainCity = extractedCity)

\* The weather node takes the city NYC of the classification as it stands.
C14_Witness ==
    /\ pc = "w_expand"
    /\ classification.ok
    /\ classification.city = "NYC"
    /\ mainCity = "NYC"

TextSearchCalls ==
    {"validateCityWithSearch", "extractCityFromSearch", "discoverNearbyCities", "weatherSearch"}

\* C15: the resolver runs only inside the weather branch, and a turn whose
\* intent is not weather performs no entity resolution and issues no text search.
C15_ResolverOnlyInWeatherBranch ==
    /\ pc \in ResolverPcs => Phase = "WeatherBranch"
    /\ (pc \in {"general", "End"} /\ intent # "weather") =>
          \A k \in 1..Len(calls) : calls[k].call \notin ResolverCalls \cup TextSearchCalls

AggregationCalls == {"discoverNearbyCities", "weatherSearch", "parseWeatherWithLLM"}

\* C16: a turn routed to the general branch performs no aggregation: no weather
\* search, no record, no widget; its response is the static acknowledgement
\* that echoes the utterance.
C16_GeneralBranchStatic ==
    (Len(visited) >= 2 /\ visited[2] = "general") =>
        /\ pc \in {"general", "End"}
        /\ ui = <<>>
        /\ weatherDataList = <<>>
        /\ allSearchResults = <<>>
        /\ \A k \in 1..Len(calls) : calls[k].call \notin AggregationCalls
        /\ pc = "End" =>
              LET echo == "I understand you said: \"" \o userMessage \o "\""
              IN /\ Len(response) > Len(echo)
                 /\ SubSeq(response, 1, Len(echo)) = echo
                 /\ SubSeq(response, Len(echo) + 1, Len(response)) =
                       ". I'm currently set up to provide weather information with beautiful UI components. Try asking me about the weather in any city!"

\* The turn of Hello there has ended in the general branch.
C16_Witness ==
    /\ pc = "End"
    /\ visited = <<"callModel", "general">>
    /\ userMessage = "Hello there"
    /\ intent = "general"

IsWeatherSearch(c) == c.call = "weatherSearch"

IsAnswered(c) == c.ok

\* The weather searches awaited so far, in order
WeatherSearches == SelectSeq(calls, IsWeatherSearch)

\* C17: a failed weather search does not abort the batch: a search is issued
\* for every location of the LocationSet in turn, every text obtained is kept,
\* and after the last search the kept texts go to parseWeatherWithLLM.
C17_SearchFailureIsolated ==
    LET issued == [k \in 1..Len(WeatherSearches) |-> WeatherSearches[k].arg]
        answered == SelectSeq(WeatherSearches, IsAnswered)
    IN /\ pc = "w_search" => issued = SubSeq(allCities, 1, searchIndex - 1)
       /\ pc \in {"w_parse", "w_respond"} => issued = allCities
       /\ pc \in {"w_search", "w_parse", "w_respond"} =>
             /\ Len(allSearchResults) = Len(answered)
             /\ \A k \in 1..Len(answered) :
                   /\ allSearchResults[k].city = answered[k].arg
                   /\ allSearchResults[k].results # ""
       /\ pc = "w_respond" => CallsOf("parseWeatherWithLLM") # {}
       /\ pc = "w_catch" => WeatherSearches = <<>>

\* The first search failed, a later one was answered, and the texts were parsed.
C17_Witness ==
    /\ pc = "w_respond"
    /\ Len(WeatherSearches) = 5
    /\ ~WeatherSearches[1].ok
    /\ WeatherSearches[5].ok
    /\ Len(allSearchResults) = 3

\* C18: no external call is retried after it fails: in a turn the
\* classification completion is invoked at most once, the weather search at
\* most once per location, and the batched weather completion at most once.
C18_NoRetry ==
    /\ Cardinality(CallsOf("classify")) <= 1
    /\ Cardinality(CallsOf("parseWeatherWithLLM")) <= 1
    /\ \A i, j \in CallsOf("weatherSearch") : i # j => calls[i].arg # calls[j].arg
    /\ \A i, j \in 1..Len(calls) :
          (i < j /\ ~calls[i].ok) => (calls[j].call # calls[i].call \/ calls[j].arg # calls[i].arg)

\* A turn has ended after a failed classification, a failed weather search and
\* a failed batched completion, each called once.
C18_Witness ==
    /\ pc = "End"
    /\ \E k \in CallsOf("classify") : ~calls[k].ok
    /\ \E k \in CallsOf("weatherSearch") : ~calls[k].ok
    /\ \E k \in CallsOf("parseWeatherWithLLM") : ~calls[k].ok
    /\ Len(WeatherSearches) = Len(allCities)

\* C19: when the batched completion fails, a location whose search returned
\* raw text gets the record the deterministic parser derives from that text:
\* 22 degrees Celsius and storm give temperature 72, condition Stormy, icon rainy.
C19_ParsedFromRawText ==
    (pc \in {"w_respond", "End"} /\ \E k \in CallsOf("parseWeatherWithLLM") : ~calls[k].ok) =>
        \A r \in 1..Len(allSearchResults) :
            (includes(allSearchResults[r].results, "22 C") /\ includes(allSearchResults[r].results, "storm"))
                => \E k \in 1..Len(weatherDataList) :
                      /\ sameCity(weatherDataList[k].city, allSearchResults[r].city)
                      /\ weatherDataList[k].temp = 72
                      /\ weatherDataList[k].condition = "Stormy"
                      /\ weatherDataList[k].icon = "rainy"

\* C20: in every list of records the aggregator outputs, from the batched
\* completion, from its fallback or from the outer fallback of the weather
\* node, the record at position i, counted from 1, has id i.
C20_SequentialIds ==
    /\ \A i \in 1..Len(weatherDataList) : weatherDataList[i].id = i
    /\ \A records \in Delivered : \A i \in 1..Len(records) : records[i].id = i

\* A delivered list from a completion that answered the cities in reverse order
C20_Witness ==
    /\ pc = "End"
    /\ recordsOrigin = "completion"
    /\ Len(ui) = 1
    /\ Len(ui[1].cities) = 4
    /\ ui[1].cities[1].city = allCities[4]

\* The LocationSet the expander builds for the primary city when the discovery
\* search has the given outcome
expandLocations(city, search) ==
    buildAllCities(city, nearbyCitiesOf(city, discoverNearbyCities(city, search)))

\* C21 as stated: the LocationSet of a primary city is the same ordered list
\* whatever the discovery search returns, so expanding the same primary twice
\* gives the same list.
C21_SameLocationSet ==
    Expanded => \A search \in SearchOutcomes : allCities = expandLocations(mainCity, search)

\* C21: for a primary city that is a key of the static table the LocationSet
\* is the primary followed by the first four cities of its row, no discovery
\* search is issued for it, and this holds in every later state of the turn,
\* whatever the weather searches and the batched completion return.
C21_CatalogExpansionFixed ==
    (Expanded /\ toLowerCase(mainCity) \in DOMAIN nearbyCitiesMap) =>
        /\ allCities = <<mainCity>> \o slice0(nearbyCitiesMap[toLowerCase(mainCity)], 4)
        /\ CallsOf("discoverNearbyCities") = {}

\* A turn about a catalog city ended after a failed batched completion
C21_Witness ==
    /\ pc = "End"
    /\ mainCity = "Tokyo"
    /\ allCities = <<"Tokyo", "Osaka", "Kyoto", "Yokohama", "Nagoya">>
    /\ \E k \in CallsOf("parseWeatherWithLLM") : ~calls[k].ok

\* C22: in a turn about the utterance "NYC weather please" the primary city of
\* the weather node is New York, whatever the classification, the completions
\* and the searches return.
C22_NycIsNewYork ==
    (userMessage = "NYC weather please" /\ MainCitySet) => mainCity = "New York"

\* The last call of the log
LastCall(log) == log[Len(log)]

\* C23: the validation search is issued only right after the completion
\* returned a candidate other than unknown; the context search is issued only
\* right after a completion without a candidate or a validation that did not
\* confirm; and a step in which the validation confirms the candidate ends the
\* resolver with that candidate as its result, without any further call.
C23_CascadeOrder ==
    [][/\ (pc' = "ex_validate" /\ pc # "ex_validate") =>
              /\ pc = "ex_llm"
              /\ LastCall(calls').call = "extractCityWithLLM"
              /\ Truthy(llmExtracted') /\ llmExtracted' # "unknown"
       /\ (pc' = "ex_search" /\ pc # "ex_search") =>
              \/ pc = "ex_llm" /\ ~(Truthy(llmExtracted') /\ llmExtracted' # "unknown")
              \/ pc = "ex_validate" /\ LastCall(calls').call = "validateCityWithSearch"
       /\ (pc = "ex_validate" /\ pc' # "ex_search") =>
              /\ pc' \notin ResolverPcs
              /\ calls' = Called("validateCityWithSearch", llmExtracted, TRUE)
              /\ (IF exCaller = "callModel" THEN extractedCity' ELSE mainCity') = llmExtracted
      ]_vars

\* The related locations of the LocationSet and the default row of the
\* primary's region
RelatedLocations == Tail(allCities)

RegionDefaults == getRegionalDefaults(detectRegion(mainCity))

IsRegionDefault(city) == \E d \in 1..Len(RegionDefaults) : RegionDefaults[d] = city

\* C24: when the discovery search was issued, so the primary is absent from
\* the static table, and it failed, every related location is a default of the
\* primary's region; when it returned fewer than three other locations the
\* set is filled up with the defaults of the primary's region.
C24_RegionalBackfill ==
    (Expanded /\ CallsOf("discoverNearbyCities") # {}) =>
        LET discovery == calls[CHOOSE k \in CallsOf("discoverNearbyCities") : TRUE]
            foreign == {k \in 1..Len(RelatedLocations) : ~IsRegionDefault(RelatedLocations[k])}
        IN /\ RelatedLocations # <<>>
           /\ ~discovery.ok => foreign = {}
           /\ (discovery.ok /\ Cardinality(foreign) < 3) =>
                  \/ Len(RelatedLocations) = 4
                  \/ \A d \in 1..Len(RegionDefaults) :
                        \/ sameCity(RegionDefaults[d], mainCity)
                        \/ \E k \in 1..Len(RelatedLocations) : RelatedLocations[k] = RegionDefaults[d]

\* The cities of the weather searches among the first n calls of the log, in order
SearchedBefore(n) ==
    LET searches == SelectSeq(SubSeq(calls, 1, n), IsWeatherSearch)
    IN [k \in 1..Len(searches) |-> searches[k].arg]

\* C25 as stated: every weather turn that has ended invoked the batched
\* structured completion exactly once.
C25_BatchedExactlyOnce ==
    (pc = "End" /\ Len(ui) > 0) => Cardinality(CallsOf("parseWeatherWithLLM")) = 1

BatchedAfterSearches ==
    /\ Cardinality(CallsOf("parseWeatherWithLLM")) <= 1
    /\ \A k \in CallsOf("parseWeatherWithLLM") :
          /\ SearchedBefore(k - 1) = allCities
          /\ SearchedBefore(Len(calls)) = allCities
    /\ (pc \in {"w_respond", "End"} /\ WeatherSearches # <<>>) =>
          CallsOf("parseWeatherWithLLM") # {}

\* C25: the batched structured completion is invoked at most once in a turn,
\* only after one weather search for every location of the LocationSet, in
\* order, has returned or failed, and exactly once in every weather turn that
\* issued a weather search; the LocationSet is fixed before the first weather
\* search and does not change afterwards.
C25_BatchedOnceAfterSearches ==
    [][(Expanded => allCities' = allCities) /\ BatchedAfterSearches']_vars

\* A weather turn that ended after five searches, one of them failed, and one
\* batched completion
C25_Witness ==
    /\ pc = "End"
    /\ Len(WeatherSearches) = 5
    /\ \E k \in 1..5 : ~WeatherSearches[k].ok
    /\ Cardinality(CallsOf("parseWeatherWithLLM")) = 1

\* The Text Matcher found a city in the message: one of its patterns or a
\* proper noun survives the filters, so its result is not the default.
MatcherFound(message) ==
    LET found == MatchAll(properNounPattern, message)
        properNouns == [k \in 1..Len(found) |-> SubSeq(message, found[k].start, found[k].end - 1)]
    IN patternCity(message, 1) # NoCap \/ firstProperNoun(properNouns, 1) # NoCap

\* C26: when the classification, the extraction completion and the context
\* search all failed and the Text Matcher found a city in the utterance, the
\* city the resolver returned is exactly the city the Text Matcher extracted.
C26_PatternSeedReturned ==
    (/\ pc \in {"route", "w_city", "w_expand", "End"}
     /\ ClassificationFailed
     /\ \E k \in CallsOf("extractCityWithLLM") : ~calls[k].ok
     /\ \E k \in CallsOf("extractCityFromSearch") : ~calls[k].ok
     /\ MatcherFound(userMessage))
        => extractedCity = extractCityFromPattern(userMessage)

\* C27: each stage of the resolver is called at most once in a turn, the
\* resolver is only ever entered from the classification node, and once that
\* node has returned, after a successful or a failed classification, the
\* extractedCity of the state is a non-empty name.
C27_ResolverAtMostOnce ==
    /\ \A c \in ResolverCalls : Cardinality(CallsOf(c)) <= 1
    /\ exCaller \in {"", "callModel"}
    /\ (CallsOf("classify") # {} /\ pc \notin ResolverPcs) =>
          (extractedCity # Null /\ extractedCity # "" /\ Len(extractedCity) > 0)

\* The weather node took its city from the state after a failed
\* classification whose resolver ran down to the context search
C27_Witness ==
    /\ pc = "w_expand"
    /\ ~classification.ok
    /\ CallsOf("extractCityFromSearch") # {}
    /\ mainCity = extractedCity

\* C28: in the YouTubeCarousel, after any sequence of nextSlide, prevSlide,
\* goToSlide of a rendered index and changes of the videos prop, currentIndex
\* is a valid index of videos, and nextSlide followed by prevSlide gives the
\* index back.
C28_CurrentVideoDefined ==
    /\ currentIndex \in 0..(Len(videos) - 1)
    /\ prevIndex(nextIndex(currentIndex, Len(videos)), Len(videos)) = currentIndex

NoDuplicateCities ==
    \A j, k \in 1..Len(carouselCities) :
        toLowerCase(carouselCities[j].city) = toLowerCase(carouselCities[k].city) => j = k

\* The entries of the list whose name is the term, compared case-insensitively
NamedLike(list, term) ==
    {k \in 1..Len(list) : toLowerCase(list[k].city) = toLowerCase(trim(term))}

withoutTimestamp(entry) == [f \in DOMAIN entry \ {"timestamp"} |-> entry[f]]

\* C29: in the WeatherCarousel no two entries of the list have the same name
\* compared case-insensitively (in the state every step starts from, and every
\* reachable state has a step), and a submission of the search form with a
\* blank term changes nothing, with the name of an entry only sets that
\* entry's timestamp to the current time, and with a new name puts exactly one
\* entry of that name in front of the unchanged list.
C29_NoDuplicateCities ==
    [][/\ NoDuplicateCities
       /\ SubmitSearch =>
            IF trim(searchTerm) = ""
            THEN UNCHANGED <<carouselCities, searchTerm, currentIndex>>
            ELSE IF NamedLike(carouselCities, searchTerm) # {}
            THEN /\ Len(carouselCities') = Len(carouselCities)
                 /\ \A k \in 1..Len(carouselCities) :
                       /\ withoutTimestamp(carouselCities'[k]) = withoutTimestamp(carouselCities[k])
                       /\ carouselCities'[k].timestamp =
                             IF k \in NamedLike(carouselCities, searchTerm) THEN clock
                             ELSE carouselCities[k].timestamp
            ELSE /\ Len(carouselCities') = Len(carouselCities) + 1
                 /\ Tail(carouselCities') = carouselCities
                 /\ carouselCities'[1].city = trim(searchTerm)
      ]_vars

\* The list after a new city was added and the name of an older entry was
\* searched again in another spelling
C29_Witness ==
    /\ Len(carouselCities) = 3
    /\ carouselCities[1].city = "Oslo"
    /\ carouselCities[2].city = "Paris"
    /\ carouselCities[2].timestamp = OneDay + MaxClock
    /\ carouselCities[1].timestamp < OneDay + MaxClock
    /\ searchTerm = ""

\* The messages whose set of components has not been sent to the canvas yet
FirstReceived(uis) ==
    {k \in 1..Len(MessageIds) :
        /\ customComponents(uis, MessageIds[k]) # <<>>
        /\ componentKey(uis, MessageIds[k]) \notin processedRef[MessageIds[k]]}

\* C30: a render in which some message shows a set of components for the
\* first time sets the canvas content to the components of the last such
\* message and makes the canvas visible; a render in which no message does
\* leaves content and visibility alone, so a closed canvas stays closed; a set
\* once sent is never sent again; and closing the canvas keeps the content,
\* which, once set, is never null again.
C30_OpensOncePerComponents ==
    [][/\ (ReceiveUi \/ Rerender) =>
            IF FirstReceived(valuesUi') # {}
            THEN LET last == CHOOSE k \in FirstReceived(valuesUi') :
                                \A j \in FirstReceived(valuesUi') : j <= k
                 IN /\ canvasVisible'
                    /\ canvasContent' = [message |-> MessageIds[last],
                                         components |-> customComponents(valuesUi', MessageIds[last])]
                    /\ \A k \in FirstReceived(valuesUi') :
                          componentKey(valuesUi', MessageIds[k]) \in processedRef'[MessageIds[k]]
            ELSE UNCHANGED <<canvasVisible, canvasContent, processedRef>>
       /\ CloseCanvas => (~canvasVisible' /\ canvasContent' = canvasContent)
       /\ hasContent => hasContent'
       /\ \A m \in DOMAIN processedRef : processedRef[m] \subseteq processedRef'[m]
      ]_vars

\* The canvas closed by the user after both components of a message were sent
\* to it: it has content and is not visible
C30_Witness ==
    /\ ~canvasVisible
    /\ hasContent
    /\ Len(valuesUi) = 2
    /\ canvasContent.components = <<"u1", "u2">>

====
